---- MODULE Spec2Model ----
EXTENDS Integers, Sequences, FiniteSets, TLC

(***************************************************************************)
(* Model of the SEO page analyser (SeoAnalyzer.analyzePage).               *)
(*                                                                         *)
(* A JavaScript string is a sequence of one-character strings, so that     *)
(* length, trim, split, replace and join are computed, not assumed.        *)
(* The parsed document (the value DOMParser.parseFromString returns) is a  *)
(* sequence of elements in document order; querySelector and               *)
(* querySelectorAll search it.                                             *)
(***************************************************************************)

VARIABLES
    url,     \* the url argument of analyzePage
    doc,     \* the parsed html argument: elements in document order
    pc,      \* "ready" before the call, "done" after it
    result   \* outcome of the call: [threw, value]

analyzeVars == <<url, doc, pc, result>>

\* The report functions (generateSummary, extractSeoData,
\* generateSummaryReport, convertToCSV), each applied once to its input
VARIABLES
    analyses,       \* the PageAnalysis[] the report is made from
    summary,        \* generateSummary(analyses), once computed
    seoData,        \* extractSeoData(analyses), once computed
    summaryReport,  \* generateSummaryReport(seoData), once computed
    csv             \* convertToCSV(seoData), once computed

reportVars == <<analyses, summary, seoData, summaryReport, csv>>

\* The rate limiter of the crawl-website function (checkRateLimit)
VARIABLES
    rateLimitStore,  \* the Map from client IP to { count, lastReset }
    now,             \* Date.now(), in ms since the function instance started
    allowedAt,       \* per client, the times of its allowed calls during the
                     \* last RATE_LIMIT_WINDOW ms
    window           \* per client, the start of its current window and the
                     \* number of its calls in it, allowed or denied

limiterVars == <<rateLimitStore, now, allowedAt, window>>

\* The crawl-website handler serving one request
VARIABLES
    request,          \* the request: method, client IP and JSON body
    firecrawlApiKey,  \* whether FIRECRAWL_API_KEY is set in the environment
    hpc,              \* the await the handler stands at, "done" once it returned
    attempts,         \* the poll loop's counter
    poll,             \* the outcome of the latest status poll
    provider,         \* the requests sent to the provider so far
    responses         \* the responses the handler returned

handlerVars == <<request, firecrawlApiKey, hpc, attempts, poll, provider, responses>>

\* The SeoAuditForm component
VARIABLES
    formUrl,        \* the url state
    maxPages,       \* the maxPages state
    isLoading,      \* the isLoading prop
    onSubmitCalls   \* the calls of the onSubmit prop so far

formVars == <<formUrl, maxPages, isLoading, onSubmitCalls>>

\* The Index page running handleAuditSubmit; its isLoading, analyses and
\* summary states are the variables of these names above
VARIABLES
    progress,       \* the progress state
    progressSet,    \* the values the current run passed to setProgress, in order
    apc,            \* "crawling" while a run awaits crawlWebsite, else "idle"
    runs            \* how each run so far ended

auditVars == <<progress, progressSet, apc, runs>>

vars == <<analyzeVars, reportVars, limiterVars, handlerVars, formVars, auditVars>>

\* a result not computed yet, and a computed one
Unset == [set |-> FALSE, val |-> <<>>]
Set(v) == [set |-> TRUE, val |-> v]

\* the report functions before any of them ran, on no input
ReportIdle ==
    /\ analyses = <<>>
    /\ summary = Unset
    /\ seoData = Unset
    /\ summaryReport = Unset
    /\ csv = Unset

RATE_LIMIT_WINDOW == 60000
RATE_LIMIT_MAX_REQUESTS == 10

\* the client IPs that call the function ('unknown': no IP header)
Clients == {"203.0.113.7", "unknown"}

\* rateLimitStore.get(clientIp) of a client never seen: undefined
NoClientData == [present |-> FALSE, count |-> 0, lastReset |-> 0]
ClientData(count, lastReset) == [present |-> TRUE, count |-> count, lastReset |-> lastReset]

\* a client that has not called yet, and one that made the given number of
\* calls since the call at the given time
NoWindow == [open |-> FALSE, start |-> 0, calls |-> 0]
Window(start, calls) == [open |-> TRUE, start |-> start, calls |-> calls]

\* the rate limiter of a function instance that has served no request
LimiterIdle ==
    /\ rateLimitStore = [c \in Clients |-> NoClientData]
    /\ now = 0
    /\ allowedAt = [c \in Clients |-> <<>>]
    /\ window = [c \in Clients |-> NoWindow]

\* no request, and no poll made yet
NoRequest == [method |-> "", clientIp |-> "", body |-> <<>>]
NoPoll == [kind |-> "none"]
NothingSent == [started |-> FALSE, polls |-> 0]

\* the handler before a request arrives
HandlerIdle ==
    /\ request = NoRequest
    /\ firecrawlApiKey = FALSE
    /\ hpc = "idle"
    /\ attempts = 0
    /\ poll = NoPoll
    /\ provider = NothingSent
    /\ responses = <<>>

\* the form as first rendered: useState('') and useState(2)
FormIdle ==
    /\ formUrl = <<>>
    /\ maxPages = 2
    /\ isLoading = FALSE
    /\ onSubmitCalls = <<>>

\* the page before any audit: useState(0), and no run of handleAuditSubmit
AuditIdle ==
    /\ progress = 0
    /\ progressSet = <<>>
    /\ apc = "idle"
    /\ runs = <<>>

\* everything but analyzePage, respectively the report functions, at rest
OthersIdle == LimiterIdle /\ HandlerIdle /\ FormIdle /\ AuditIdle

-----------------------------------------------------------------------------
(* Bounds of the input space *)

MaxH1 == 2        \* at most this many <h1> elements in a document
MaxImages == 9    \* at most this many <img> elements in a document

-----------------------------------------------------------------------------
(* Strings *)

Min(a, b) == IF a < b THEN a ELSE b
Max(a, b) == IF a > b THEN a ELSE b

Rep(c, n) == [i \in 1..n |-> c]

\* characters String.prototype.trim strips (the ones the inputs use)
Whitespace == {" ", "\t", "\n"}

RECURSIVE TrimStart(_)
TrimStart(s) ==
    IF s # <<>> /\ Head(s) \in Whitespace THEN TrimStart(Tail(s)) ELSE s

RECURSIVE TrimEnd(_)
TrimEnd(s) ==
    IF s # <<>> /\ s[Len(s)] \in Whitespace
    THEN TrimEnd(SubSeq(s, 1, Len(s) - 1))
    ELSE s

Trim(s) == TrimEnd(TrimStart(s))

\* index of the first character of s, at or after position from, that is in
\* set cs; Len(s) + 1 when there is none
RECURSIVE IndexIn(_, _, _)
IndexIn(s, cs, from) ==
    IF from > Len(s) THEN Len(s) + 1
    ELSE IF s[from] \in cs THEN from
    ELSE IndexIn(s, cs, from + 1)

\* String.prototype.split with a one-character separator
RECURSIVE Split(_, _)
Split(s, sep) ==
    LET k == IndexIn(s, {sep}, 1)
    IN  IF k > Len(s) THEN <<s>>
        ELSE <<SubSeq(s, 1, k - 1)>> \o Split(SubSeq(s, k + 1, Len(s)), sep)

\* Array.prototype.join
RECURSIVE Join(_, _)
Join(parts, sep) ==
    IF parts = <<>> THEN <<>>
    ELSE IF Len(parts) = 1 THEN parts[1]
    ELSE parts[1] \o sep \o Join(Tail(parts), sep)

\* String.prototype.replace(/c/g, d)
ReplaceAll(s, c, d) == [i \in 1..Len(s) |-> IF s[i] = c THEN d ELSE s[i]]

\* String.prototype.toUpperCase on one character
ToUpper(c) ==
    CASE c = "a" -> "A" [] c = "b" -> "B" [] c = "o" -> "O"
      [] c = "s" -> "S" [] c = "t" -> "T" [] c = "u" -> "U"
      [] OTHER -> c

\* a nullable string: null, or a string
Null == [some |-> FALSE, val |-> <<>>]
Str(s) == [some |-> TRUE, val |-> s]

\* JavaScript truthiness of a nullable string
Truthy(o) == o.some /\ o.val # <<>>

-----------------------------------------------------------------------------
(* The parsed document *)

NoAttrs == [name |-> Null, content |-> Null, src |-> Null, alt |-> Null]

Element(tag, text, attrs) == [tag |-> tag, textContent |-> text, attrs |-> attrs]

Description == <<"d", "e", "s", "c", "r", "i", "p", "t", "i", "o", "n">>
Viewport == <<"v", "i", "e", "w", "p", "o", "r", "t">>

TitleEl(text) == Element("title", text, NoAttrs)
MetaEl(name, content) ==
    Element("meta", <<>>, [NoAttrs EXCEPT !.name = name, !.content = content])
H1El(text) == Element("h1", text, NoAttrs)
ImgEl(src, alt) ==
    Element("img", <<>>, [NoAttrs EXCEPT !.src = src, !.alt = alt])

\* Element.getAttribute: null when the attribute is absent
getAttribute(el, attr) == el.attrs[attr]

\* the selectors analyzePage uses
Matches(el, sel) ==
    IF sel = "meta[name=\"description\"]"
    THEN el.tag = "meta" /\ getAttribute(el, "name") = Str(Description)
    ELSE el.tag = sel

\* Document.querySelectorAll: the matching elements in document order
querySelectorAll(d, sel) == SelectSeq(d, LAMBDA el : Matches(el, sel))

\* Document.querySelector: the first matching element, or null
querySelector(d, sel) ==
    LET all == querySelectorAll(d, sel)
    IN  IF all = <<>>
        THEN [found |-> FALSE, el |-> Element("", <<>>, NoAttrs)]
        ELSE [found |-> TRUE, el |-> all[1]]

-----------------------------------------------------------------------------
(* SeoIssue *)

\* a template literal: the fixed text and the numbers interpolated into it
Fmt(text, args) == [text |-> text, args |-> args]

SeoIssue(type, category, message, details) ==
    [type |-> type, category |-> category, message |-> message, details |-> details]

-----------------------------------------------------------------------------
(* analyzePage: the four checks.  Each returns the issues it pushes and    *)
(* the amount it subtracts from score.                                     *)

NoFinding == [issues |-> <<>>, penalty |-> 0]
Finding(issue, penalty) == [issues |-> <<issue>>, penalty |-> penalty]

\* TitleCheck with the length tests no longer under the else of the
\* missing-title test
TitleCheckNoElse(titleElement) ==
    LET text == IF titleElement.found THEN titleElement.el.textContent ELSE <<>>
        missing ==
            IF ~titleElement.found \/ Trim(text) = <<>>
            THEN Finding(SeoIssue("error", "title", Fmt("Missing title tag", <<>>),
                         Fmt("Every page should have a unique title tag for SEO", <<>>)), 20)
            ELSE NoFinding
        length ==
            IF Len(text) > 60
            THEN Finding(SeoIssue("warning", "title", Fmt("Title tag too long", <<>>),
                         Fmt("Title is ${} characters. Recommended: 50-60 characters",
                             <<Len(text)>>)), 10)
            ELSE IF Len(text) < 30
            THEN Finding(SeoIssue("warning", "title", Fmt("Title tag too short", <<>>),
                         Fmt("Title is ${} characters. Recommended: 30-60 characters",
                             <<Len(text)>>)), 5)
            ELSE NoFinding
    IN  [issues |-> missing.issues \o length.issues,
         penalty |-> missing.penalty + length.penalty]

TitleCheck(titleElement) ==
    IF ~titleElement.found \/ Trim(titleElement.el.textContent) = <<>>
    THEN Finding(SeoIssue("error", "title", Fmt("Missing title tag", <<>>),
                 Fmt("Every page should have a unique title tag for SEO", <<>>)), 20)
    ELSE IF Len(titleElement.el.textContent) > 60
    THEN Finding(SeoIssue("warning", "title", Fmt("Title tag too long", <<>>),
                 Fmt("Title is ${} characters. Recommended: 50-60 characters",
                     <<Len(titleElement.el.textContent)>>)), 10)
    ELSE IF Len(titleElement.el.textContent) < 30
    THEN Finding(SeoIssue("warning", "title", Fmt("Title tag too short", <<>>),
                 Fmt("Title is ${} characters. Recommended: 30-60 characters",
                     <<Len(titleElement.el.textContent)>>)), 5)
    ELSE NoFinding

\* MetaCheck taking 60 off for a missing description
MetaCheckMissing60(metaDescription) ==
    IF ~metaDescription.found
       \/ ~getAttribute(metaDescription.el, "content").some
       \/ Trim(getAttribute(metaDescription.el, "content").val) = <<>>
    THEN Finding(SeoIssue("error", "meta_description",
                 Fmt("Missing meta description", <<>>),
                 Fmt("Meta descriptions help search engines understand your page content",
                     <<>>)), 60)
    ELSE LET content == getAttribute(metaDescription.el, "content").val
         IN  IF Len(content) > 160
             THEN Finding(SeoIssue("warning", "meta_description",
                          Fmt("Meta description too long", <<>>),
                          Fmt("Description is ${} characters. Recommended: 120-160 characters",
                              <<Len(content)>>)), 10)
             ELSE IF Len(content) < 120
             THEN Finding(SeoIssue("warning", "meta_description",
                          Fmt("Meta description too short", <<>>),
                          Fmt("Description is ${} characters. Recommended: 120-160 characters",
                              <<Len(content)>>)), 5)
             ELSE NoFinding

MetaCheck(metaDescription) ==
    IF ~metaDescription.found
       \/ ~getAttribute(metaDescription.el, "content").some
       \/ Trim(getAttribute(metaDescription.el, "content").val) = <<>>
    THEN Finding(SeoIssue("error", "meta_description",
                 Fmt("Missing meta description", <<>>),
                 Fmt("Meta descriptions help search engines understand your page content",
                     <<>>)), 20)
    ELSE LET content == getAttribute(metaDescription.el, "content").val
         IN  IF Len(content) > 160
             THEN Finding(SeoIssue("warning", "meta_description",
                          Fmt("Meta description too long", <<>>),
                          Fmt("Description is ${} characters. Recommended: 120-160 characters",
                              <<Len(content)>>)), 10)
             ELSE IF Len(content) < 120
             THEN Finding(SeoIssue("warning", "meta_description",
                          Fmt("Meta description too short", <<>>),
                          Fmt("Description is ${} characters. Recommended: 120-160 characters",
                              <<Len(content)>>)), 5)
             ELSE NoFinding

\* H1Check with the missing-title penalty copied to the missing-H1 branch
H1CheckPenalty20(h1Elements) ==
    IF Len(h1Elements) = 0
    THEN Finding(SeoIssue("error", "h1", Fmt("Missing H1 tag", <<>>),
                 Fmt("Every page should have exactly one H1 tag for SEO hierarchy",
                     <<>>)), 20)
    ELSE IF Len(h1Elements) > 1
    THEN Finding(SeoIssue("warning", "h1", Fmt("Multiple H1 tags found", <<>>),
                 Fmt("Found ${} H1 tags. Recommended: exactly 1 H1 per page",
                     <<Len(h1Elements)>>)), 10)
    ELSE NoFinding

H1Check(h1Elements) ==
    IF Len(h1Elements) = 0
    THEN Finding(SeoIssue("error", "h1", Fmt("Missing H1 tag", <<>>),
                 Fmt("Every page should have exactly one H1 tag for SEO hierarchy",
                     <<>>)), 15)
    ELSE IF Len(h1Elements) > 1
    THEN Finding(SeoIssue("warning", "h1", Fmt("Multiple H1 tags found", <<>>),
                 Fmt("Found ${} H1 tags. Recommended: exactly 1 H1 per page",
                     <<Len(h1Elements)>>)), 10)
    ELSE NoFinding

\* LacksAlt without the alt.trim() === '' test
LacksAltNoTrim(img) == ~Truthy(getAttribute(img, "alt"))

\* the images.forEach loop: the {src, alt} records of the images whose alt
\* is null, empty or whitespace-only
LacksAlt(img) ==
    LET alt == getAttribute(img, "alt")
    IN  ~Truthy(alt) \/ Trim(alt.val) = <<>>

CollectImagesWithoutAlt(images) ==
    LET lacking == SelectSeq(images, LacksAlt)
    IN  [i \in 1..Len(lacking) |->
            [src |-> IF Truthy(getAttribute(lacking[i], "src"))
                     THEN getAttribute(lacking[i], "src").val
                     ELSE <<>>,
             alt |-> getAttribute(lacking[i], "alt")]]

\* ImagePenalty added to the score instead of subtracted from it
ImagePenaltyAdded(n) == 0 - Min(n * 2, 15)

ImagePenalty(n) == Min(n * 2, 15)

\* ImageCheck without the cap of 15 on the deduction
ImageCheckUncapped(imagesWithoutAlt) ==
    IF Len(imagesWithoutAlt) > 0
    THEN Finding(SeoIssue("warning", "images",
                 Fmt("${} images without alt attributes", <<Len(imagesWithoutAlt)>>),
                 Fmt("Alt attributes improve accessibility and help search engines understand image content",
                     <<>>)),
                 Len(imagesWithoutAlt) * 2)
    ELSE NoFinding

ImageCheck(imagesWithoutAlt) ==
    IF Len(imagesWithoutAlt) > 0
    THEN Finding(SeoIssue("warning", "images",
                 Fmt("${} images without alt attributes", <<Len(imagesWithoutAlt)>>),
                 Fmt("Alt attributes improve accessibility and help search engines understand image content",
                     <<>>)),
                 ImagePenalty(Len(imagesWithoutAlt)))
    ELSE NoFinding

-----------------------------------------------------------------------------
(* new URL(url).pathname, for the URLs of the input space: a scheme of     *)
(* letters, "://", a non-empty host, then the path up to the first "?" or  *)
(* "#".  Anything else makes the constructor throw.  The inputs hold no    *)
(* character the URL parser rewrites (dot segments, spaces, backslashes).  *)

Letters == {"a", "b", "h", "o", "p", "s", "t", "u"}

ParseURL(u) ==
    LET colon == IndexIn(u, {":"}, 1)
        hostStart == colon + 3
        hostEnd == IndexIn(u, {"/", "?", "#"}, hostStart)
        pathEnd == IndexIn(u, {"?", "#"}, hostEnd)
        ok == /\ colon > 1
              /\ colon + 2 <= Len(u)
              /\ \A i \in 1..(colon - 1) : u[i] \in Letters
              /\ u[colon + 1] = "/"
              /\ u[colon + 2] = "/"
              /\ hostEnd > hostStart
    IN  IF ok
        THEN [ok |-> TRUE,
              pathname |-> IF pathEnd = hostEnd THEN <<"/">>
                           ELSE SubSeq(u, hostEnd, pathEnd - 1)]
        ELSE [ok |-> FALSE, pathname |-> <<>>]

-----------------------------------------------------------------------------
(* analyzePage: the display title *)

NoTitle == <<"N", "o", " ", "t", "i", "t", "l", "e">>

Returned(v) == [threw |-> FALSE, val |-> v]
Thrown == [threw |-> TRUE, val |-> <<>>]

\* word.charAt(0).toUpperCase() + word.slice(1)
Capitalize(word) ==
    IF word = <<>> THEN <<>> ELSE <<ToUpper(word[1])>> \o Tail(word)

\* the last path segment, '-' and '_' replaced by spaces, each word capitalized
Humanize(segment) ==
    LET words == Split(ReplaceAll(ReplaceAll(segment, "-", " "), "_", " "), " ")
    IN  Join([i \in 1..Len(words) |-> Capitalize(words[i])], <<" ">>)

\* the body of the try block; pageTitle is 'No title' on entry
UrlTitle(u) ==
    LET parsed == ParseURL(u)
        pathParts == SelectSeq(Split(parsed.pathname, "/"), LAMBDA part : Len(part) > 0)
    IN  IF ~parsed.ok THEN Thrown
        ELSE IF Len(pathParts) > 0
        THEN LET t == Humanize(pathParts[Len(pathParts)])
             IN  Returned(IF t # <<>> THEN t ELSE NoTitle)
        ELSE Returned(NoTitle)

\* TryUrlTitle without the catch clause
TryUrlTitleNoCatch(u) == UrlTitle(u)

\* try { ... } catch { pageTitle = 'No title' }
TryUrlTitle(u) ==
    LET r == UrlTitle(u)
    IN  IF r.threw THEN Returned(NoTitle) ELSE r

\* PageTitle accepting a first H1 of length 3
PageTitleH1AtLeast3(titleElement, h1Elements, u) ==
    LET titleText == IF titleElement.found
                     THEN Trim(titleElement.el.textContent) ELSE <<>>
        firstH1 == IF Len(h1Elements) > 0
                   THEN Trim(h1Elements[1].textContent) ELSE <<>>
    IN  IF Len(titleText) > 0 THEN Returned(titleText)
        ELSE IF firstH1 # <<>> /\ Len(firstH1) >= 3 THEN Returned(firstH1)
        ELSE TryUrlTitle(u)

PageTitle(titleElement, h1Elements, u) ==
    LET titleText == IF titleElement.found
                     THEN Trim(titleElement.el.textContent) ELSE <<>>
        firstH1 == IF Len(h1Elements) > 0
                   THEN Trim(h1Elements[1].textContent) ELSE <<>>
    IN  IF Len(titleText) > 0 THEN Returned(titleText)
        ELSE IF firstH1 # <<>> /\ Len(firstH1) > 3 THEN Returned(firstH1)
        ELSE TryUrlTitle(u)

-----------------------------------------------------------------------------
(* analyzePage: the result *)

\* s || null
OrNull(s) == IF s # <<>> THEN Str(s) ELSE Null

\* H1TagDetails without the trim
H1TagDetailsUntrimmed(h1Elements) ==
    [i \in 1..Len(h1Elements) |-> h1Elements[i].textContent]

H1TagDetails(h1Elements) ==
    [i \in 1..Len(h1Elements) |-> Trim(h1Elements[i].textContent)]

H1Tags(h1Elements) ==
    << [text |-> Join(H1TagDetails(h1Elements), <<",", " ">>),
        count |-> Len(h1Elements)] >>

FinalScore(score) == Max(0, score)

analyzePage(u, d) ==
    LET titleElement == querySelector(d, "title")
        metaDescription == querySelector(d, "meta[name=\"description\"]")
        h1Elements == querySelectorAll(d, "h1")
        images == querySelectorAll(d, "img")
        imagesWithoutAlt == CollectImagesWithoutAlt(images)
        t == TitleCheck(titleElement)
        m == MetaCheck(metaDescription)
        h == H1Check(h1Elements)
        g == ImageCheck(imagesWithoutAlt)
        score == 100 - t.penalty - m.penalty - h.penalty - g.penalty
        pageTitle == PageTitle(titleElement, h1Elements, u)
    IN  IF pageTitle.threw THEN Thrown
        ELSE Returned(
            [url |-> u,
             title |-> pageTitle.val,
             issues |-> t.issues \o m.issues \o h.issues \o g.issues,
             score |-> FinalScore(score),
             crawled |-> TRUE,
             seoDetails |->
                [titleText |-> IF titleElement.found
                               THEN OrNull(Trim(titleElement.el.textContent))
                               ELSE Null,
                 metaDescription |->
                    IF metaDescription.found
                       /\ getAttribute(metaDescription.el, "content").some
                    THEN OrNull(Trim(getAttribute(metaDescription.el, "content").val))
                    ELSE Null,
                 h1Tags |-> H1Tags(h1Elements),
                 imagesWithoutAlt |-> imagesWithoutAlt]])

-----------------------------------------------------------------------------
(* The input space *)

MaxPad == 1       \* whitespace characters around a text, on each side

Pad(p, s) == Rep(" ", p) \o s \o Rep(" ", p)

\* lengths at and around the thresholds of the title and description checks
TitleLens == {0, 29, 30, 60, 61}
MetaLens == {0, 119, 120, 160, 161}

TitleParts ==
    {<<>>, <<TitleEl(Rep("x", 30)), TitleEl(<<>>)>>}
    \cup { <<TitleEl(Pad(p, Rep("x", n)))>> : p \in 0..MaxPad, n \in TitleLens }

MetaParts ==
    {<<>>,
     <<MetaEl(Str(Description), Null)>>,
     <<MetaEl(Str(Viewport), Str(Rep("y", 120)))>>}
    \cup { <<MetaEl(Str(Viewport), Str(<<"y">>)),
             MetaEl(Str(Description), Str(Pad(p, Rep("y", n))))>> :
           p \in 0..MaxPad, n \in MetaLens }

H1Texts == << <<"a", "b", "c">>, <<" ", "a", "b", "c", "\n">>,
              <<"a", "b", "c", "d">>, <<>> >>

H1Parts ==
    { [i \in 1..c |-> H1El(H1Texts[((start + i - 2) % 4) + 1])] :
      c \in 0..MaxH1, start \in 1..4 }

\* image i: the second one has a usable alt; the others have no alt
\* attribute, an empty one or a blank one, in turn
ImgAlt(i) ==
    IF i = 2 THEN Str(<<"x">>)
    ELSE IF i % 3 = 0 THEN Null
    ELSE IF i % 3 = 1 THEN Str(<<>>)
    ELSE Str(<<" ">>)

ImgSrc(i) == IF i % 4 = 0 THEN Null ELSE Str(Rep("s", i))

ImgParts == { [i \in 1..n |-> ImgEl(ImgSrc(i), ImgAlt(i))] : n \in 0..MaxImages }

Docs == { t \o m \o h \o g :
          t \in TitleParts, m \in MetaParts, h \in H1Parts, g \in ImgParts }

\* the documents that vary only in what the display title reads
TitleDocs == { t \o h : t \in TitleParts, h \in H1Parts }

Origin == <<"h", "t", "t", "p", ":", "/", "/", "h">>

AboutUs == Origin \o <<"/", "a", "b", "o", "u", "t", "-", "u", "s">>

Urls ==
    { <<"a", "b", "o", "u", "t", "-", "u", "s">>,
      <<>>,
      Origin,
      Origin \o <<"/">>,
      AboutUs,
      Origin \o <<"/", "a", "/", "b", "_", "a", "/">>,
      Origin \o <<"/", "a", "?", "s", "=", "/", "b">>,
      Origin \o <<"/", "-">> }

-----------------------------------------------------------------------------
(* The state machine: one call of analyzePage on inputs of the input space *)

NoResult == [threw |-> FALSE, val |-> <<>>]

\* every document with one url, and every url with every title and H1 part
Inputs == ({AboutUs} \X Docs) \cup (Urls \X TitleDocs)

Init ==
    /\ \E input \in Inputs : url = input[1] /\ doc = input[2]
    /\ pc = "ready"
    /\ result = NoResult
    /\ ReportIdle
    /\ OthersIdle

AnalyzePage ==
    /\ pc = "ready"
    /\ result' = analyzePage(url, doc)
    /\ pc' = "done"
    /\ UNCHANGED <<url, doc, reportVars, limiterVars, handlerVars, formVars, auditVars>>

Next == AnalyzePage

Spec == Init /\ [][Next]_vars

-----------------------------------------------------------------------------
(* Properties of analyzePage.  What a property says about the page is      *)
(* computed here from doc and url directly, not through the checks above.  *)

Done == pc = "done"
Analysed == Done /\ ~result.threw
Analysis == result.val

IssuesOf(category) == SelectSeq(Analysis.issues, LAMBDA i : i.category = category)
OtherIssues(category) == SelectSeq(Analysis.issues, LAMBDA i : i.category # category)

\* the penalty the specification attaches to an issue
PenaltyOf(issue) ==
    CASE issue.message.text = "Missing title tag" -> 20
      [] issue.message.text = "Title tag too long" -> 10
      [] issue.message.text = "Title tag too short" -> 5
      [] issue.message.text = "Missing meta description" -> 20
      [] issue.message.text = "Meta description too long" -> 10
      [] issue.message.text = "Meta description too short" -> 5
      [] issue.message.text = "Missing H1 tag" -> 15
      [] issue.message.text = "Multiple H1 tags found" -> 10
      [] issue.message.text = "${} images without alt attributes" ->
            Min(2 * issue.message.args[1], 15)

RECURSIVE SumPenalties(_)
SumPenalties(issues) ==
    IF issues = <<>> THEN 0
    ELSE PenaltyOf(Head(issues)) + SumPenalties(Tail(issues))

Labels(issues) == [i \in 1..Len(issues) |-> <<issues[i].type, issues[i].message.text>>]

\* the page's facts
TitleTexts == [i \in 1..Len(SelectSeq(doc, LAMBDA e : e.tag = "title")) |->
                 SelectSeq(doc, LAMBDA e : e.tag = "title")[i].textContent]
TrimmedTitle == IF TitleTexts = <<>> THEN <<>> ELSE Trim(TitleTexts[1])

DescriptionContents ==
    LET metas == SelectSeq(doc, LAMBDA e : e.tag = "meta" /\ e.attrs.name = Str(Description))
    IN  [i \in 1..Len(metas) |-> metas[i].attrs.content]
TrimmedDescription ==
    IF DescriptionContents = <<>> \/ ~DescriptionContents[1].some THEN <<>>
    ELSE Trim(DescriptionContents[1].val)

H1Count == Cardinality({i \in DOMAIN doc : doc[i].tag = "h1"})
H1Trimmed ==
    LET hs == SelectSeq(doc, LAMBDA e : e.tag = "h1")
    IN  [i \in 1..Len(hs) |-> Trim(hs[i].textContent)]

Blank(s) == \A i \in DOMAIN s : s[i] \in Whitespace
Unusable(alt) == ~alt.some \/ Blank(alt.val)
ImagesLackingAlt == SelectSeq(doc, LAMBDA e : e.tag = "img" /\ Unusable(e.attrs.alt))
ImagesWithAlt == SelectSeq(doc, LAMBDA e : e.tag = "img" /\ ~Unusable(e.attrs.alt))

\* C1: every returned analysis has an integer score between 0 and 100.
ScoreInRange == Analysed => Analysis.score \in 0..100

ScoreInRangeWitness == Analysed /\ Len(Analysis.issues) = 4 /\ Analysis.score < 35

\* C2: the score is max(0, 100 - P), P the sum of the penalties of all the
\* checks that fired; no penalty is skipped because another check fired.
ScoreIsBaseMinusPenalties ==
    Analysed => Analysis.score = Max(0, 100 - SumPenalties(Analysis.issues))

ScoreIsBaseMinusPenaltiesWitness ==
    /\ Analysed
    /\ Len(Analysis.issues) = 4
    /\ Len(ImagesLackingAlt) >= 8
    /\ Analysis.issues[1].message.text = "Title tag too short"

\* C3: the title check classifies by the length L of the trimmed title text:
\* L = 0 or no title gives the error 'Missing title tag', L > 60 the warning
\* 'Title tag too long', 1 <= L < 30 the warning 'Title tag too short',
\* 30 <= L <= 60 no title issue; whitespace around the text changes nothing.
TitleClassifiedByTrimmedLength ==
    Analysed =>
        LET L == Len(TrimmedTitle)
        IN  Labels(IssuesOf("title")) =
                IF L = 0 THEN << <<"error", "Missing title tag">> >>
                ELSE IF L > 60 THEN << <<"warning", "Title tag too long">> >>
                ELSE IF L < 30 THEN << <<"warning", "Title tag too short">> >>
                ELSE <<>>

\* C4: the meta description check classifies by the length L of the trimmed
\* content attribute: absent or L = 0 gives the error 'Missing meta
\* description', L > 160 a 'too long' warning, 1 <= L < 120 a 'too short'
\* warning, 120 <= L <= 160 no issue; whitespace around it changes nothing.
MetaClassifiedByTrimmedLength ==
    Analysed =>
        LET L == Len(TrimmedDescription)
        IN  Labels(IssuesOf("meta_description")) =
                IF L = 0 THEN << <<"error", "Missing meta description">> >>
                ELSE IF L > 160 THEN << <<"warning", "Meta description too long">> >>
                ELSE IF L < 120 THEN << <<"warning", "Meta description too short">> >>
                ELSE <<>>

\* C5: the H1 check depends only on the number C of <h1> elements: C = 0
\* gives the error 'Missing H1 tag' and costs 15, C > 1 gives the warning
\* 'Multiple H1 tags found' with C in its details and costs 10, C = 1 gives
\* no h1 issue and costs nothing.
H1ClassifiedByCount ==
    Analysed =>
        LET C == H1Count
            cost == 100 - SumPenalties(OtherIssues("h1")) - Analysis.score
        IN  /\ C = 0 =>
                /\ Labels(IssuesOf("h1")) = << <<"error", "Missing H1 tag">> >>
                /\ cost = 15
            /\ C > 1 =>
                /\ Labels(IssuesOf("h1")) = << <<"warning", "Multiple H1 tags found">> >>
                /\ IssuesOf("h1")[1].details.args = <<C>>
                /\ cost = 10
            /\ C = 1 => IssuesOf("h1") = <<>> /\ cost = 0

H1ClassifiedByCountWitness ==
    /\ Analysed
    /\ H1Count > 1
    /\ \E i \in DOMAIN Analysis.issues : Analysis.issues[i].category = "h1"

\* C6: with N images lacking usable alt text (absent, empty or blank),
\* exactly those N images are recorded in seoDetails.imagesWithoutAlt, one
\* images warning '<N> images without alt attributes' is emitted iff N > 0,
\* and exactly min(2N, 15) points are deducted; an image with a non-blank
\* alt is never counted.
ImagesWithoutAltCounted ==
    Analysed =>
        LET lacking == ImagesLackingAlt
            N == Len(lacking)
            cost == 100 - SumPenalties(OtherIssues("images")) - Analysis.score
        IN  /\ Analysis.seoDetails.imagesWithoutAlt =
                [k \in 1..N |->
                    [src |-> IF lacking[k].attrs.src.some
                             THEN lacking[k].attrs.src.val ELSE <<>>,
                     alt |-> lacking[k].attrs.alt]]
            /\ Labels(IssuesOf("images")) =
                IF N > 0 THEN << <<"warning", "${} images without alt attributes">> >>
                ELSE <<>>
            /\ N > 0 => IssuesOf("images")[1].message.args = <<N>>
            /\ cost = Min(2 * N, 15)

ImagesWithoutAltCountedWitness ==
    /\ Analysed
    /\ Len(ImagesLackingAlt) >= 8
    /\ Len(ImagesWithAlt) > 0
    /\ \E i \in DOMAIN ImagesLackingAlt :
          ImagesLackingAlt[i].attrs.alt.some /\ ImagesLackingAlt[i].attrs.alt.val # <<>>

\* C7: the issues are in detection order title, meta_description, h1,
\* images, at most one per category (so at most 4), each an error or a
\* warning.
CategoryRank(category) ==
    CASE category = "title" -> 1
      [] category = "meta_description" -> 2
      [] category = "h1" -> 3
      [] category = "images" -> 4

IssuesInDetectionOrder ==
    Analysed =>
        /\ Len(Analysis.issues) <= 4
        /\ \A i \in DOMAIN Analysis.issues :
              /\ Analysis.issues[i].type \in {"error", "warning"}
              /\ Analysis.issues[i].category \in
                    {"title", "meta_description", "h1", "images"}
        /\ \A i, j \in DOMAIN Analysis.issues :
              i < j => CategoryRank(Analysis.issues[i].category)
                          < CategoryRank(Analysis.issues[j].category)

IssuesInDetectionOrderWitness ==
    /\ Analysed
    /\ Len(Analysis.issues) = 4
    /\ Analysis.issues[1].type = "error"
    /\ Analysis.issues[4].type = "warning"

\* the last non-empty segment of the URL's path: the longest run of
\* characters other than "/" that ends at the last such character
PathOf == ParseURL(url).pathname
SegmentEnd ==
    IF \E i \in DOMAIN PathOf : PathOf[i] # "/"
    THEN CHOOSE i \in DOMAIN PathOf :
            PathOf[i] # "/" /\ \A j \in DOMAIN PathOf : j > i => PathOf[j] = "/"
    ELSE 0
SegmentStart ==
    CHOOSE i \in 1..SegmentEnd :
        /\ \A j \in i..SegmentEnd : PathOf[j] # "/"
        /\ i > 1 => PathOf[i - 1] = "/"
HasSegment == ParseURL(url).ok /\ SegmentEnd > 0
LastSegment == SubSeq(PathOf, SegmentStart, SegmentEnd)

\* t is s with '-' and '_' replaced by spaces and each word capitalized
IsHumanized(t, s) ==
    /\ Len(t) = Len(s)
    /\ \A i \in DOMAIN s :
          t[i] = IF s[i] \in {"-", "_"} THEN " "
                 ELSE IF i = 1 \/ s[i - 1] \in {"-", "_", " "} THEN ToUpper(s[i])
                 ELSE s[i]

FirstH1Usable == H1Trimmed # <<>> /\ Len(H1Trimmed[1]) > 3
ReachesUrlStep == TrimmedTitle = <<>> /\ ~FirstH1Usable

\* C8: the display title is the trimmed <title> text if non-empty; else the
\* first <h1>'s trimmed text if longer than 3; else the last non-empty path
\* segment of url with '-' and '_' replaced by spaces and each word
\* capitalized; else 'No title'.  The first step that succeeds wins and the
\* title is never the empty string.
DisplayTitleFallbackChain ==
    Analysed =>
        /\ Analysis.title # <<>>
        /\ TrimmedTitle # <<>> => Analysis.title = TrimmedTitle
        /\ TrimmedTitle = <<>> /\ FirstH1Usable => Analysis.title = H1Trimmed[1]
        /\ ReachesUrlStep /\ HasSegment => IsHumanized(Analysis.title, LastSegment)
        /\ ReachesUrlStep /\ ~HasSegment => Analysis.title = NoTitle

DisplayTitleFallbackChainWitness ==
    /\ Analysed
    /\ ReachesUrlStep
    /\ H1Trimmed # <<>>
    /\ HasSegment
    /\ \E i \in DOMAIN LastSegment : i > 1 /\ LastSegment[i] = "-"
    /\ Analysis.title # LastSegment

\* C9: analyzePage never raises and returns crawled = true; when the title
\* fallback reaches the URL step and the url cannot be parsed, the title is
\* 'No title'.
AnalyzePageNeverRaises ==
    Done =>
        /\ ~result.threw
        /\ Analysis.crawled = TRUE
        /\ ReachesUrlStep /\ ~ParseURL(url).ok => Analysis.title = NoTitle

AnalyzePageNeverRaisesWitness ==
    /\ Analysed
    /\ ReachesUrlStep
    /\ ~ParseURL(url).ok
    /\ doc = <<>>

\* C10: seoDetails.h1Tags has exactly one element; its count is the number
\* of <h1> elements (0 included) and its text is the trimmed texts of all
\* the H1 elements joined by ', ' in document order.
\* position in the joined text before which the i-th text starts
RECURSIVE JoinOffset(_)
JoinOffset(i) == IF i = 1 THEN 0 ELSE JoinOffset(i - 1) + Len(H1Trimmed[i - 1]) + 2

H1TagsIsOneJoinedRecord ==
    Analysed =>
        LET tags == Analysis.seoDetails.h1Tags
            C == H1Count
        IN  /\ Len(tags) = 1
            /\ tags[1].count = C
            /\ Len(tags[1].text) =
                  IF C = 0 THEN 0 ELSE JoinOffset(C) + Len(H1Trimmed[C])
            /\ \A i \in 1..C :
                  /\ SubSeq(tags[1].text, JoinOffset(i) + 1,
                            JoinOffset(i) + Len(H1Trimmed[i])) = H1Trimmed[i]
                  /\ i < C =>
                        SubSeq(tags[1].text, JoinOffset(i + 1) - 1, JoinOffset(i + 1))
                            = <<",", " ">>

H1TagsIsOneJoinedRecordWitness ==
    /\ Analysed
    /\ H1Count >= 2
    /\ \E i \in 1..H1Count :
          H1Trimmed[i] # SelectSeq(doc, LAMBDA e : e.tag = "h1")[i].textContent

-----------------------------------------------------------------------------
(* JavaScript numbers the report functions compute: a quotient of two      *)
(* non-negative integers is kept exact (IEEE rounding of the division is   *)
(* not modelled); dividing by zero gives NaN (0 / 0) or Infinity.          *)

Num(n) == [kind |-> "number", val |-> n]
NaN == [kind |-> "NaN", val |-> 0]
Infinity == [kind |-> "Infinity", val |-> 0]

\* a / b, not yet rounded
Divide(a, b) == [num |-> a, den |-> b]

\* MathRound truncating instead of rounding
MathFloor(q) ==
    IF q.den = 0 THEN IF q.num = 0 THEN NaN ELSE Infinity
    ELSE Num(q.num \div q.den)

\* Math.round of a non-negative quotient: nearest integer, ties upwards
MathRound(q) ==
    IF q.den = 0 THEN IF q.num = 0 THEN NaN ELSE Infinity
    ELSE Num((2 * q.num + q.den) \div (2 * q.den))

RECURSIVE SumSeq(_)
SumSeq(ns) == IF ns = <<>> THEN 0 ELSE Head(ns) + SumSeq(Tail(ns))

-----------------------------------------------------------------------------
(* SeoAnalyzer.generateSummary *)

\* TotalIssues counting the pages that have issues instead of the issues
TotalIssuesPerPage(as) ==
    SumSeq([i \in 1..Len(as) |-> IF Len(as[i].issues) > 0 THEN 1 ELSE 0])

\* analyses.reduce((sum, page) => sum + page.issues.length, 0)
TotalIssues(as) == SumSeq([i \in 1..Len(as) |-> Len(as[i].issues)])

\* analyses.reduce((sum, page) => sum + page.score, 0)
TotalScore(as) == SumSeq([i \in 1..Len(as) |-> as[i].score])

\* the forEach loops: issuesByType[issue.type]++
CountByType(as, type) ==
    SumSeq([i \in 1..Len(as) |->
              Len(SelectSeq(as[i].issues, LAMBDA issue : issue.type = type))])

\* the forEach loops: issuesByCategory[issue.category]++
CountByCategory(as, category) ==
    SumSeq([i \in 1..Len(as) |->
              Len(SelectSeq(as[i].issues, LAMBDA issue : issue.category = category))])

\* Object.entries(issuesByCategory): the properties in insertion order
Entries(issuesByCategory) ==
    << [category |-> "title", count |-> issuesByCategory.title],
       [category |-> "meta_description", count |-> issuesByCategory.meta_description],
       [category |-> "h1", count |-> issuesByCategory.h1],
       [category |-> "images", count |-> issuesByCategory.images] >>

\* Array.prototype.sort with (a, b) => b - a on the counts is stable: an
\* entry goes behind every entry whose count is at least its own
InsertByCount(sorted, e) ==
    LET k == Cardinality({j \in DOMAIN sorted : sorted[j].count >= e.count})
    IN  SubSeq(sorted, 1, k) \o <<e>> \o SubSeq(sorted, k + 1, Len(sorted))

\* InsertByCount putting an entry before the entries of equal count
InsertBeforeEqual(sorted, e) ==
    LET k == Cardinality({j \in DOMAIN sorted : sorted[j].count > e.count})
    IN  SubSeq(sorted, 1, k) \o <<e>> \o SubSeq(sorted, k + 1, Len(sorted))

RECURSIVE SortByCountDesc(_)
SortByCountDesc(entries) ==
    IF entries = <<>> THEN <<>>
    ELSE InsertByCount(SortByCountDesc(SubSeq(entries, 1, Len(entries) - 1)),
                       entries[Len(entries)])

RECURSIVE SortUnstable(_)
SortUnstable(entries) ==
    IF entries = <<>> THEN <<>>
    ELSE InsertBeforeEqual(SortUnstable(SubSeq(entries, 1, Len(entries) - 1)),
                           entries[Len(entries)])

\* TopIssues with a sort that does not keep equal counts in order
TopIssuesUnstable(issuesByCategory) ==
    SubSeq(SortUnstable(Entries(issuesByCategory)), 1, 3)

\* .sort(([,a], [,b]) => b - a).slice(0, 3).map(...)
TopIssues(issuesByCategory) ==
    SubSeq(SortByCountDesc(Entries(issuesByCategory)), 1, 3)

generateSummary(as) ==
    LET totalPages == Len(as)
        totalIssues == TotalIssues(as)
        averageScore == Divide(TotalScore(as), totalPages)
        issuesByType == [error |-> CountByType(as, "error"),
                         warning |-> CountByType(as, "warning"),
                         info |-> CountByType(as, "info")]
        issuesByCategory ==
            [title |-> CountByCategory(as, "title"),
             meta_description |-> CountByCategory(as, "meta_description"),
             h1 |-> CountByCategory(as, "h1"),
             images |-> CountByCategory(as, "images")]
    IN  [totalPages |-> totalPages,
         totalIssues |-> totalIssues,
         averageScore |-> MathRound(averageScore),
         issuesByType |-> issuesByType,
         issuesByCategory |-> issuesByCategory,
         topIssues |-> TopIssues(issuesByCategory)]

-----------------------------------------------------------------------------
(* SeoDataExtractor.extractSeoData.  The fixed texts of the suggestions    *)
(* and of the CSV are kept as single items of a string (none of them holds *)
(* a line break); the page's own texts are character by character.         *)

Missing == <<"M", "I", "S", "S", "I", "N", "G">>

Digit(d) ==
    CASE d = 0 -> "0" [] d = 1 -> "1" [] d = 2 -> "2" [] d = 3 -> "3"
      [] d = 4 -> "4" [] d = 5 -> "5" [] d = 6 -> "6" [] d = 7 -> "7"
      [] d = 8 -> "8" [] d = 9 -> "9"

\* Number.prototype.toString of a non-negative integer
RECURSIVE NumberToString(_)
NumberToString(n) ==
    IF n < 10 THEN <<Digit(n)>> ELSE NumberToString(n \div 10) \o <<Digit(n % 10)>>

\* the label of a text of the given length between the two limits
LengthIssue(present, length, tooLong, tooShort) ==
    IF ~present THEN "Missing"
    ELSE IF length > tooLong THEN "Too Long"
    ELSE IF length < tooShort THEN "Too Short"
    ELSE "Good"

\* SeoDataRow with the title limits used for the meta description as well
SeoDataRowTitleLimits(analysis) ==
    LET d == analysis.seoDetails
        titleContent == IF Truthy(d.titleText) THEN d.titleText.val ELSE Missing
        titleLength == IF titleContent = Missing THEN 0 ELSE Len(titleContent)
        metaDescription == IF Truthy(d.metaDescription) THEN d.metaDescription.val ELSE Missing
        metaLength == IF metaDescription = Missing THEN 0 ELSE Len(metaDescription)
        h1Count == IF Len(d.h1Tags) > 0 THEN d.h1Tags[1].count ELSE 0
    IN  [url |-> analysis.url,
         titleContent |-> titleContent,
         titleIssue |-> LengthIssue(Truthy(d.titleText), titleLength, 60, 30),
         metaDescription |-> metaDescription,
         metaIssue |-> LengthIssue(Truthy(d.metaDescription), metaLength, 60, 30),
         h1Count |-> h1Count,
         h1Content |-> IF Len(d.h1Tags) > 0 /\ d.h1Tags[1].text # <<>>
                       THEN d.h1Tags[1].text ELSE Missing,
         h1Issue |-> IF h1Count = 0 THEN "Missing"
                     ELSE IF h1Count > 1 THEN "Multiple H1s" ELSE "Good",
         imagesWithoutAlt |-> Len(d.imagesWithoutAlt),
         totalImages |-> 0,
         titleSuggestion |-> <<"Your title tag is well optimized.">>,
         metaSuggestion |-> <<"Your meta description is well optimized.">>,
         h1Suggestion |-> <<"Your H1 tag structure is optimized.">>,
         imageSuggestion |-> <<"All images have alt text - great for accessibility!">>]

\* the body of the analyses.map callback
SeoDataRow(analysis) ==
    LET d == analysis.seoDetails
        titleContent == IF Truthy(d.titleText) THEN d.titleText.val ELSE Missing
        titleLength == IF titleContent = Missing THEN 0 ELSE Len(titleContent)
        titleIssue == LengthIssue(Truthy(d.titleText), titleLength, 60, 30)
        metaDescription == IF Truthy(d.metaDescription) THEN d.metaDescription.val ELSE Missing
        metaLength == IF metaDescription = Missing THEN 0 ELSE Len(metaDescription)
        metaIssue == LengthIssue(Truthy(d.metaDescription), metaLength, 160, 120)
        h1Count == IF Len(d.h1Tags) > 0 THEN d.h1Tags[1].count ELSE 0
        h1Content == IF Len(d.h1Tags) > 0 /\ d.h1Tags[1].text # <<>>
                     THEN d.h1Tags[1].text ELSE Missing
        h1Issue == IF h1Count = 0 THEN "Missing"
                   ELSE IF h1Count > 1 THEN "Multiple H1s" ELSE "Good"
        imagesWithoutAlt == Len(d.imagesWithoutAlt)
    IN  [url |-> analysis.url,
         titleContent |-> titleContent,
         titleIssue |-> titleIssue,
         metaDescription |-> metaDescription,
         metaIssue |-> metaIssue,
         h1Count |-> h1Count,
         h1Content |-> h1Content,
         h1Issue |-> h1Issue,
         imagesWithoutAlt |-> imagesWithoutAlt,
         totalImages |-> 0,
         titleSuggestion |->
            CASE titleIssue = "Missing" ->
                   <<"Add a unique, descriptive title tag (30-60 characters) that includes your main keyword.">>
              [] titleIssue = "Too Long" ->
                   <<"Shorten your title to 50-60 characters (currently ">>
                   \o NumberToString(titleLength)
                   \o <<"). Focus on your main keyword and value proposition.">>
              [] titleIssue = "Too Short" ->
                   <<"Expand your title to 30-60 characters (currently ">>
                   \o NumberToString(titleLength)
                   \o <<"). Add more descriptive keywords.">>
              [] OTHER -> <<"Your title tag is well optimized.">>,
         metaSuggestion |->
            CASE metaIssue = "Missing" ->
                   <<"Add a compelling meta description (120-160 characters) that summarizes your page and includes relevant keywords.">>
              [] metaIssue = "Too Long" ->
                   <<"Shorten your meta description to 120-160 characters (currently ">>
                   \o NumberToString(metaLength)
                   \o <<"). Focus on the most important benefits.">>
              [] metaIssue = "Too Short" ->
                   <<"Expand your meta description to 120-160 characters (currently ">>
                   \o NumberToString(metaLength)
                   \o <<"). Add more compelling details.">>
              [] OTHER -> <<"Your meta description is well optimized.">>,
         h1Suggestion |->
            CASE h1Issue = "Missing" ->
                   <<"Add exactly one H1 tag that clearly describes your page content and includes your main keyword.">>
              [] h1Issue = "Multiple H1s" ->
                   <<"Use only one H1 tag per page (you have ">>
                   \o NumberToString(h1Count)
                   \o <<"). Convert extra H1s to H2 or H3 tags for proper hierarchy.">>
              [] OTHER -> <<"Your H1 tag structure is optimized.">>,
         imageSuggestion |->
            IF imagesWithoutAlt > 0
            THEN <<"Add descriptive alt text to ">> \o NumberToString(imagesWithoutAlt)
                 \o <<" image(s). Alt text helps screen readers and search engines understand your images.">>
            ELSE <<"All images have alt text - great for accessibility!">>]

extractSeoData(as) == [i \in 1..Len(as) |-> SeoDataRow(as[i])]

-----------------------------------------------------------------------------
(* SeoDataExtractor.generateSummaryReport *)

\* Percentage truncated instead of rounded
PercentageTruncated(count, totalPages) == MathFloor(Divide(count * 100, totalPages))

\* Math.round((count / totalPages) * 100)
Percentage(count, totalPages) == MathRound(Divide(count * 100, totalPages))

CountRows(rows, Test(_)) == Len(SelectSeq(rows, Test))

generateSummaryReport(rows) ==
    LET totalPages == Len(rows)
        pagesWithMissingTitles == CountRows(rows, LAMBDA row : row.titleIssue = "Missing")
        pagesWithMissingMetaDesc == CountRows(rows, LAMBDA row : row.metaIssue = "Missing")
        pagesWithNoH1 == CountRows(rows, LAMBDA row : row.h1Count = 0)
        pagesWithMultipleH1 == CountRows(rows, LAMBDA row : row.h1Count > 1)
        totalImagesWithoutAlt == SumSeq([i \in 1..Len(rows) |-> rows[i].imagesWithoutAlt])
    IN  [totalPages |-> totalPages,
         issues |->
            [missingTitles |->
                [count |-> pagesWithMissingTitles,
                 percentage |-> Percentage(pagesWithMissingTitles, totalPages)],
             missingMetaDescriptions |->
                [count |-> pagesWithMissingMetaDesc,
                 percentage |-> Percentage(pagesWithMissingMetaDesc, totalPages)],
             noH1Tags |->
                [count |-> pagesWithNoH1,
                 percentage |-> Percentage(pagesWithNoH1, totalPages)],
             multipleH1Tags |->
                [count |-> pagesWithMultipleH1,
                 percentage |-> Percentage(pagesWithMultipleH1, totalPages)],
             imagesWithoutAlt |->
                [total |-> totalImagesWithoutAlt,
                 averagePerPage |->
                    MathRound(Divide(totalImagesWithoutAlt, totalPages))]]]

-----------------------------------------------------------------------------
(* SeoDataExtractor.convertToCSV *)

headers ==
    << <<"Page URL">>, <<"Current Title Tag">>, <<"Title Issue">>,
       <<"Title Recommendation">>, <<"Current Meta Description">>, <<"Meta Issue">>,
       <<"Meta Recommendation">>, <<"H1 Count">>, <<"H1 Content">>, <<"H1 Issue">>,
       <<"H1 Recommendation">>, <<"Images Missing Alt Text">>,
       <<"Image Recommendation">> >>

\* `"${text}"`: the text between double quotes, as it is
Quoted(text) == <<"\"">> \o text \o <<"\"">>

CsvRow(row) ==
    Join(<< Quoted(row.url),
            Quoted(row.titleContent),
            Quoted(<<row.titleIssue>>),
            Quoted(row.titleSuggestion),
            Quoted(row.metaDescription),
            Quoted(<<row.metaIssue>>),
            Quoted(row.metaSuggestion),
            NumberToString(row.h1Count),
            Quoted(row.h1Content),
            Quoted(<<row.h1Issue>>),
            Quoted(row.h1Suggestion),
            NumberToString(row.imagesWithoutAlt),
            Quoted(row.imageSuggestion) >>, <<",">>)

convertToCSV(rows) ==
    Join(<<Join(headers, <<",">>)>> \o [i \in 1..Len(rows) |-> CsvRow(rows[i])],
         <<"\n">>)

-----------------------------------------------------------------------------
(* The report functions applied to the analyses of up to MaxPages pages    *)

MaxPages == 3     \* at most this many pages in a batch

\* the pages of the batches, as (url, document): a page without issues; an
\* empty document; a title with a line break, a long description, two H1s
\* and an image without alt; a title with a comma and a double quote and no
\* description; a long title and two images without alt
SamplePages ==
    << <<AboutUs,
         <<TitleEl(Rep("x", 30)), MetaEl(Str(Description), Str(Rep("y", 120))),
           H1El(<<"a", "b", "c", "d">>)>> >>,
       <<Origin, <<>> >>,
       <<Origin \o <<"/", "a">>,
         <<TitleEl(<<"a", "\n", "b">>), MetaEl(Str(Description), Str(Rep("y", 161))),
           H1El(<<"a", "b", "c">>), H1El(<<" ", "a", "b", "c", "\n">>),
           ImgEl(Str(<<"s">>), Null)>> >>,
       <<Origin \o <<"/", "b">>,
         <<TitleEl(<<"a", ",", "\"", "b">>), H1El(<<"a", "b", "c", "d">>)>> >>,
       <<Origin \o <<"/", "-">>,
         <<TitleEl(Rep("x", 61)), MetaEl(Str(Description), Str(Rep("y", 160))),
           H1El(<<"a", "b", "c", "d">>),
           ImgEl(Null, Str(<<" ">>)), ImgEl(Str(<<"s">>), Str(<<>>)),
           ImgEl(Str(<<"t">>), Str(<<"x">>))>> >> >>

SampleAnalyses ==
    [i \in DOMAIN SamplePages |-> analyzePage(SamplePages[i][1], SamplePages[i][2]).val]

Batches ==
    UNION { { [i \in 1..k |-> SampleAnalyses[f[i]]] : f \in [1..k -> DOMAIN SamplePages] } :
            k \in 0..MaxPages }

\* analyzePage not being called
AnalyzeIdle ==
    /\ url = <<>>
    /\ doc = <<>>
    /\ pc = "idle"
    /\ result = NoResult

InitReport ==
    /\ AnalyzeIdle
    /\ OthersIdle
    /\ analyses \in Batches
    /\ summary = Unset
    /\ seoData = Unset
    /\ summaryReport = Unset
    /\ csv = Unset

GenerateSummary ==
    /\ ~summary.set
    /\ summary' = Set(generateSummary(analyses))
    /\ UNCHANGED <<analyses, seoData, summaryReport, csv, analyzeVars, limiterVars, handlerVars, formVars, auditVars>>

ExtractSeoData ==
    /\ ~seoData.set
    /\ seoData' = Set(extractSeoData(analyses))
    /\ UNCHANGED <<analyses, summary, summaryReport, csv, analyzeVars, limiterVars, handlerVars, formVars, auditVars>>

GenerateSummaryReport ==
    /\ seoData.set
    /\ ~summaryReport.set
    /\ summaryReport' = Set(generateSummaryReport(seoData.val))
    /\ UNCHANGED <<analyses, summary, seoData, csv, analyzeVars, limiterVars, handlerVars, formVars, auditVars>>

ConvertToCSV ==
    /\ seoData.set
    /\ ~csv.set
    /\ csv' = Set(convertToCSV(seoData.val))
    /\ UNCHANGED <<analyses, summary, seoData, summaryReport, analyzeVars, limiterVars, handlerVars, formVars, auditVars>>

NextReport ==
    \/ GenerateSummary
    \/ ExtractSeoData
    \/ GenerateSummaryReport
    \/ ConvertToCSV

SpecReport == InitReport /\ [][NextReport]_vars

-----------------------------------------------------------------------------
(* Properties of the report functions *)

Pages == 1..Len(analyses)
ScoreSum == SumSeq([i \in Pages |-> analyses[i].score])

\* the issues of the batch, as (page, position) pairs
BatchIssues == { <<i, j>> \in Pages \X (1..4) : j <= Len(analyses[i].issues) }
IssueAt(ij) == analyses[ij[1]].issues[ij[2]]
IssuesWithType(type) == Cardinality({ij \in BatchIssues : IssueAt(ij).type = type})
IssuesWithCategory(category) ==
    Cardinality({ij \in BatchIssues : IssueAt(ij).category = category})

\* a is num / den rounded to the nearest integer, ties upwards
IsRounded(a, num, den) ==
    /\ a.kind = "number"
    /\ 2 * a.val * den - den <= 2 * num
    /\ 2 * num < 2 * a.val * den + den

\* C11: for K >= 1 analyses generateSummary returns totalPages = K and
\* averageScore = the mean of the K scores rounded to the nearest integer,
\* ties upwards, an integer in 0..100.
AverageScoreIsRoundedMean ==
    summary.set /\ Len(analyses) >= 1 =>
        /\ summary.val.totalPages = Len(analyses)
        /\ IsRounded(summary.val.averageScore, ScoreSum, Len(analyses))
        /\ summary.val.averageScore.val \in 0..100

AverageScoreIsRoundedMeanWitness ==
    /\ summary.set
    /\ Len(analyses) = 2
    /\ ScoreSum % 2 = 1

\* C12: generateSummary counts every issue exactly once: totalIssues is the
\* sum of issues.length over the pages, the sum of the three issuesByType
\* counts and the sum of the four issuesByCategory counts.
EveryIssueCountedOnce ==
    summary.set =>
        LET s == summary.val
        IN  /\ s.totalIssues = Cardinality(BatchIssues)
            /\ s.issuesByType.error = IssuesWithType("error")
            /\ s.issuesByType.warning = IssuesWithType("warning")
            /\ s.issuesByType.info = IssuesWithType("info")
            /\ s.totalIssues = s.issuesByType.error + s.issuesByType.warning
                                + s.issuesByType.info
            /\ s.totalIssues = s.issuesByCategory.title
                                + s.issuesByCategory.meta_description
                                + s.issuesByCategory.h1 + s.issuesByCategory.images

EveryIssueCountedOnceWitness ==
    /\ summary.set
    /\ Len(analyses) >= 2
    /\ \E i \in Pages : Len(analyses[i].issues) >= 3
    /\ \E i \in Pages : Len(analyses[i].issues) = 0
    /\ summary.val.totalIssues >= 6

\* C13: generateSummary on an empty sequence returns totalPages = 0,
\* totalIssues = 0 and a well-defined numeric averageScore, not the result
\* of a division by zero.
EmptySummaryIsDefined ==
    summary.set /\ analyses = <<>> =>
        /\ summary.val.totalPages = 0
        /\ summary.val.totalIssues = 0
        /\ summary.val.averageScore.kind = "number"

\* C14: topIssues is the four categories sorted by issue count descending,
\* equal counts in the order title, meta_description, h1, images, cut to
\* the first three: three entries, distinct categories, non-increasing
\* counts, and the omitted category counts no more than any listed one.
Categories == {"title", "meta_description", "h1", "images"}

\* category c comes before category d in the sorted list
SortsBefore(c, d) ==
    \/ IssuesWithCategory(c) > IssuesWithCategory(d)
    \/ IssuesWithCategory(c) = IssuesWithCategory(d) /\ CategoryRank(c) < CategoryRank(d)

TopIssuesAreFirstThree ==
    summary.set =>
        LET top == summary.val.topIssues
        IN  /\ Len(top) = 3
            /\ \A i \in 1..3 :
                  /\ top[i].category \in Categories
                  /\ top[i].count = IssuesWithCategory(top[i].category)
            /\ \A i, j \in 1..3 : i < j =>
                  /\ top[i].category # top[j].category
                  /\ top[i].count >= top[j].count
                  /\ SortsBefore(top[i].category, top[j].category)
            /\ \A c \in Categories :
                  (\A i \in 1..3 : top[i].category # c) =>
                      \A i \in 1..3 :
                          /\ IssuesWithCategory(c) <= top[i].count
                          /\ SortsBefore(top[i].category, c)

TopIssuesAreFirstThreeWitness ==
    /\ summary.set
    /\ summary.val.topIssues[1].count > summary.val.topIssues[2].count
    /\ summary.val.topIssues[2].count = summary.val.topIssues[3].count
    /\ summary.val.topIssues[3].count = IssuesWithCategory("images")
    /\ summary.val.topIssues[3].count > 0

\* C15: extractSeoData maps the analyses one to one and in order: row i has
\* the url of analysis i, titleIssue is Missing for a null titleText, else
\* Too Long above 60 characters, Too Short below 30, else Good; metaIssue
\* likewise with 160 and 120; h1Issue is Missing for no H1, Multiple H1s
\* for more than one, else Good; imagesWithoutAlt is the length of
\* seoDetails.imagesWithoutAlt.
LabelOf(text, most, least) ==
    IF ~text.some THEN "Missing"
    ELSE IF Len(text.val) > most THEN "Too Long"
    ELSE IF Len(text.val) < least THEN "Too Short"
    ELSE "Good"

H1CountOf(details) == IF details.h1Tags = <<>> THEN 0 ELSE details.h1Tags[1].count

RowsMirrorAnalyses ==
    seoData.set =>
        /\ Len(seoData.val) = Len(analyses)
        /\ \A i \in Pages :
              LET row == seoData.val[i]
                  details == analyses[i].seoDetails
              IN  /\ row.url = analyses[i].url
                  /\ row.titleIssue = LabelOf(details.titleText, 60, 30)
                  /\ row.metaIssue = LabelOf(details.metaDescription, 160, 120)
                  /\ row.h1Issue = (IF H1CountOf(details) = 0 THEN "Missing"
                                    ELSE IF H1CountOf(details) > 1 THEN "Multiple H1s"
                                    ELSE "Good")
                  /\ row.imagesWithoutAlt = Len(details.imagesWithoutAlt)

RowsMirrorAnalysesWitness ==
    /\ seoData.set
    /\ Len(analyses) >= 2
    /\ seoData.val[1].url # seoData.val[2].url
    /\ seoData.val[1].titleIssue = "Too Long"
    /\ seoData.val[1].imagesWithoutAlt = 2
    /\ seoData.val[2].metaIssue = "Good"
    /\ seoData.val[2].titleIssue = "Good"

\* C16: for a non-empty row table generateSummaryReport gives, for missing
\* titles, missing meta descriptions, no-H1 pages and multiple-H1 pages, a
\* count in 0..totalPages and the percentage round(count / totalPages * 100),
\* in 0..100; the no-H1 and multiple-H1 counts together are at most
\* totalPages; averagePerPage is round(total images without alt / totalPages).
Rows == 1..Len(seoData.val)

CountAndPercentage(entry, count) ==
    /\ entry.count = count
    /\ entry.count \in 0..Len(seoData.val)
    /\ IsRounded(entry.percentage, 100 * count, Len(seoData.val))
    /\ entry.percentage.val \in 0..100

ReportCountsAndPercentages ==
    summaryReport.set /\ Len(seoData.val) >= 1 =>
        LET rows == seoData.val
            issues == summaryReport.val.issues
            imagesTotal == SumSeq([i \in Rows |-> rows[i].imagesWithoutAlt])
        IN  /\ summaryReport.val.totalPages = Len(rows)
            /\ CountAndPercentage(issues.missingTitles,
                  Cardinality({i \in Rows : rows[i].titleIssue = "Missing"}))
            /\ CountAndPercentage(issues.missingMetaDescriptions,
                  Cardinality({i \in Rows : rows[i].metaIssue = "Missing"}))
            /\ CountAndPercentage(issues.noH1Tags,
                  Cardinality({i \in Rows : rows[i].h1Count = 0}))
            /\ CountAndPercentage(issues.multipleH1Tags,
                  Cardinality({i \in Rows : rows[i].h1Count > 1}))
            /\ issues.noH1Tags.count + issues.multipleH1Tags.count <= Len(rows)
            /\ issues.imagesWithoutAlt.total = imagesTotal
            /\ IsRounded(issues.imagesWithoutAlt.averagePerPage, imagesTotal, Len(rows))

ReportCountsAndPercentagesWitness ==
    /\ summaryReport.set
    /\ summaryReport.val.totalPages = 3
    /\ summaryReport.val.issues.missingMetaDescriptions.count = 2
    /\ summaryReport.val.issues.noH1Tags.count = 1
    /\ summaryReport.val.issues.multipleH1Tags.count = 1
    /\ summaryReport.val.issues.imagesWithoutAlt.total = 1

\* C17: for every row table, also one whose texts hold commas, double
\* quotes or line breaks, convertToCSV returns exactly rows.length + 1
\* lines separated by line breaks: the 13-column header, then for each row
\* i a line i + 1 built from it.
LineBreaks == {i \in DOMAIN csv.val : csv.val[i] = "\n"}
CsvLineCount == Cardinality(LineBreaks) + 1

\* the positions just before and just after line k of the CSV text
CsvLineStart(k) ==
    IF k = 1 THEN 0
    ELSE CHOOSE b \in LineBreaks : Cardinality({c \in LineBreaks : c < b}) = k - 2
CsvLineEnd(k) ==
    IF k = CsvLineCount THEN Len(csv.val) + 1
    ELSE CHOOSE b \in LineBreaks : Cardinality({c \in LineBreaks : c < b}) = k - 1
CsvLine(k) == SubSeq(csv.val, CsvLineStart(k) + 1, CsvLineEnd(k) - 1)

CsvHasOneLinePerRow ==
    csv.set =>
        /\ CsvLineCount = Len(seoData.val) + 1
        /\ CsvLine(1) = Join(headers, <<",">>)
        /\ Len(Split(CsvLine(1), ",")) = 13
        /\ \A i \in Rows :
              SubSeq(CsvLine(i + 1), 1, Len(seoData.val[i].url) + 2)
                  = Quoted(seoData.val[i].url)

-----------------------------------------------------------------------------
(* crawl-website: checkRateLimit.  Calls of the clients interleave with    *)
(* the passing of time.                                                     *)

\* the instants at which calls are made: two a millisecond apart, two more
\* a window later, one after a further window
Instants ==
    {0, 1, RATE_LIMIT_WINDOW, RATE_LIMIT_WINDOW + 1, 2 * RATE_LIMIT_WINDOW + 2}

\* checkRateLimit denying only once the count has passed the limit
checkRateLimitOffByOne(store, clientIp, t) ==
    LET clientData == store[clientIp]
    IN  IF ~clientData.present \/ (t - clientData.lastReset) > RATE_LIMIT_WINDOW
        THEN [allowed |-> TRUE,
              store |-> [store EXCEPT ![clientIp] = ClientData(1, t)]]
        ELSE IF clientData.count > RATE_LIMIT_MAX_REQUESTS
        THEN [allowed |-> FALSE, store |-> store]
        ELSE [allowed |-> TRUE,
              store |-> [store EXCEPT ![clientIp] =
                            ClientData(clientData.count + 1, clientData.lastReset)]]

\* checkRateLimit(clientIp) at time t on the given store: the answer and
\* the store it leaves
checkRateLimit(store, clientIp, t) ==
    LET clientData == store[clientIp]
    IN  IF ~clientData.present \/ (t - clientData.lastReset) > RATE_LIMIT_WINDOW
        THEN [allowed |-> TRUE,
              store |-> [store EXCEPT ![clientIp] = ClientData(1, t)]]
        ELSE IF clientData.count >= RATE_LIMIT_MAX_REQUESTS
        THEN [allowed |-> FALSE, store |-> store]
        ELSE [allowed |-> TRUE,
              store |-> [store EXCEPT ![clientIp] =
                            ClientData(clientData.count + 1, clientData.lastReset)]]

MaxWindowCalls == 12     \* at most this many calls of a client in a window

\* the window of a client after a call of it now: a window ends with the
\* first call more than RATE_LIMIT_WINDOW ms after the call that began it
Called(clientIp) ==
    IF window[clientIp].open /\ now - window[clientIp].start <= RATE_LIMIT_WINDOW
    THEN Window(window[clientIp].start, window[clientIp].calls + 1)
    ELSE Window(now, 1)

\* the times of t that lie in the RATE_LIMIT_WINDOW ms ending at time t
Recent(times, t) == SelectSeq(times, LAMBDA at : at > t - RATE_LIMIT_WINDOW)

InitLimiter ==
    /\ AnalyzeIdle
    /\ ReportIdle
    /\ LimiterIdle
    /\ HandlerIdle
    /\ FormIdle
    /\ AuditIdle

TimePasses ==
    \E later \in Instants :
        /\ later > now
        /\ now' = later
        /\ allowedAt' = [c \in Clients |-> Recent(allowedAt[c], later)]
        /\ UNCHANGED <<rateLimitStore, window, analyzeVars, reportVars, handlerVars, formVars, auditVars>>

CheckRateLimit(clientIp) ==
    LET check == checkRateLimit(rateLimitStore, clientIp, now)
    IN  /\ rateLimitStore' = check.store
        /\ allowedAt' = IF check.allowed
                        THEN [allowedAt EXCEPT ![clientIp] = Append(@, now)]
                        ELSE allowedAt
        /\ Called(clientIp).calls <= MaxWindowCalls
        /\ window' = [window EXCEPT ![clientIp] = Called(clientIp)]
        /\ UNCHANGED <<now, analyzeVars, reportVars, handlerVars, formVars, auditVars>>

NextLimiter ==
    \/ TimePasses
    \/ \E clientIp \in Clients : CheckRateLimit(clientIp)

SpecLimiter == InitLimiter /\ [][NextLimiter]_vars

\* C19: at most 10 requests per minute per client IP: no interval of
\* 60000 ms holds more than 10 allowed checkRateLimit calls of one client.
AtMostTenAllowedPerWindow ==
    \A c \in Clients : Len(allowedAt[c]) <= RATE_LIMIT_MAX_REQUESTS

-----------------------------------------------------------------------------
(* crawl-website: the request handler.  One step of the model is the code  *)
(* between two awaits; what the awaited call gives (the request body, the  *)
(* provider's answers, an exception) is chosen by the step that receives   *)
(* it.                                                                     *)

maxAttempts == 30

\* String.prototype.toLowerCase on one character
ToLower(c) ==
    CASE c = "A" -> "a" [] c = "B" -> "b" [] c = "C" -> "c" [] c = "D" -> "d"
      [] c = "E" -> "e" [] c = "F" -> "f" [] c = "G" -> "g" [] c = "H" -> "h"
      [] c = "I" -> "i" [] c = "J" -> "j" [] c = "K" -> "k" [] c = "L" -> "l"
      [] c = "M" -> "m" [] c = "N" -> "n" [] c = "O" -> "o" [] c = "P" -> "p"
      [] c = "Q" -> "q" [] c = "R" -> "r" [] c = "S" -> "s" [] c = "T" -> "t"
      [] c = "U" -> "u" [] c = "V" -> "v" [] c = "W" -> "w" [] c = "X" -> "x"
      [] c = "Y" -> "y" [] c = "Z" -> "z"
      [] OTHER -> c

LowerCase(s) == [i \in 1..Len(s) |-> ToLower(s[i])]

\* String.prototype.includes, startsWith and endsWith
Includes(s, part) ==
    \E i \in 1..(Len(s) - Len(part) + 1) : SubSeq(s, i, i + Len(part) - 1) = part
StartsWith(s, part) == Len(part) <= Len(s) /\ SubSeq(s, 1, Len(part)) = part
EndsWith(s, part) ==
    Len(part) <= Len(s) /\ SubSeq(s, Len(s) - Len(part) + 1, Len(s)) = part

\* new URL(u), its protocol and hostname: a scheme of letters, "://", a
\* non-empty host up to the first "/", "?" or "#"; anything else throws
SchemeLetters ==
    {"a", "b", "c", "d", "e", "f", "g", "h", "i", "j", "k", "l", "m", "n",
     "o", "p", "q", "r", "s", "t", "u", "v", "w", "x", "y", "z"}

\* the hostname of the authority part: an IPv6 address keeps its brackets,
\* a port (":" and what follows) is not part of it
HostOfAuthority(authority) ==
    LET closing == IF authority # <<>> /\ authority[1] = "["
                   THEN Min(IndexIn(authority, {"]"}, 1), Len(authority))
                   ELSE 0
        portColon == IndexIn(authority, {":"}, closing + 1)
    IN  SubSeq(authority, 1, portColon - 1)

ParseOrigin(u) ==
    LET colon == IndexIn(u, {":"}, 1)
        hostStart == colon + 3
        hostEnd == IndexIn(u, {"/", "?", "#"}, hostStart)
        ok == /\ colon > 1
              /\ colon + 2 <= Len(u)
              /\ \A i \in 1..(colon - 1) : u[i] \in SchemeLetters
              /\ u[colon + 1] = "/"
              /\ u[colon + 2] = "/"
              /\ hostEnd > hostStart
    IN  IF ok
        THEN [ok |-> TRUE,
              protocol |-> SubSeq(u, 1, colon),
              hostname |-> HostOfAuthority(SubSeq(u, hostStart, hostEnd - 1))]
        ELSE [ok |-> FALSE, protocol |-> <<>>, hostname |-> <<>>]

BLOCKED_DOMAINS == {<<"l", "o", "c", "a", "l", "h", "o", "s", "t">>, <<"1", "2", "7", ".", "0", ".", "0", ".", "1">>, <<"0", ".", "0", ".", "0", ".", "0">>, <<":", ":", "1">>}
BLOCKED_PROTOCOLS == {<<"f", "i", "l", "e", ":">>, <<"f", "t", "p", ":">>, <<"s", "s", "h", ":">>}

DigitValue(c) ==
    CASE c = "0" -> 0 [] c = "1" -> 1 [] c = "2" -> 2 [] c = "3" -> 3
      [] c = "4" -> 4 [] c = "5" -> 5 [] c = "6" -> 6 [] c = "7" -> 7
      [] c = "8" -> 8 [] c = "9" -> 9 [] OTHER -> -1

\* /^(10\.|172\.(1[6-9]|2[0-9]|3[01])\.|192\.168\.|127\.)/
PrivateIp(hostname) ==
    \/ StartsWith(hostname, <<"1", "0", ".">>)
    \/ /\ StartsWith(hostname, <<"1", "7", "2", ".">>)
       /\ Len(hostname) >= 7
       /\ hostname[7] = "."
       /\ \/ hostname[5] = "1" /\ DigitValue(hostname[6]) \in 6..9
          \/ hostname[5] = "2" /\ DigitValue(hostname[6]) \in 0..9
          \/ hostname[5] = "3" /\ DigitValue(hostname[6]) \in 0..1
    \/ StartsWith(hostname, <<"1", "9", "2", ".", "1", "6", "8", ".">>)
    \/ StartsWith(hostname, <<"1", "2", "7", ".">>)

validateUrl(u) ==
    LET parsedUrl == ParseOrigin(u)
    IN  IF ~parsedUrl.ok
        THEN [valid |-> FALSE, error |-> "Invalid URL format"]
        ELSE IF parsedUrl.protocol \notin {<<"h", "t", "t", "p", ":">>, <<"h", "t", "t", "p", "s", ":">>}
        THEN [valid |-> FALSE, error |-> "Only HTTP and HTTPS URLs are allowed"]
        ELSE IF \E protocol \in BLOCKED_PROTOCOLS : StartsWith(LowerCase(u), protocol)
        THEN [valid |-> FALSE, error |-> "Blocked protocol detected"]
        ELSE IF parsedUrl.hostname \in BLOCKED_DOMAINS
        THEN [valid |-> FALSE, error |-> "Local or private URLs are not allowed"]
        ELSE IF PrivateIp(parsedUrl.hostname)
        THEN [valid |-> FALSE, error |-> "Private IP addresses are not allowed"]
        ELSE [valid |-> TRUE, error |-> ""]

\* a thrown value: an Error with its message, or something else
ErrorWith(message) == [isError |-> TRUE, message |-> message]
NotAnError == [isError |-> FALSE, message |-> <<>>]

sanitizeError(error) ==
    IF error.isError
    THEN IF Includes(error.message, <<"A", "P", "I", " ", "k", "e", "y">>) \/ Includes(error.message, <<"A", "u", "t", "h", "o", "r", "i", "z", "a", "t", "i", "o", "n">>)
         THEN "Authentication failed"
         ELSE IF Includes(error.message, <<"f", "e", "t", "c", "h">>) \/ Includes(error.message, <<"n", "e", "t", "w", "o", "r", "k">>)
         THEN "Network error occurred"
         ELSE "An error occurred while processing your request"
    ELSE "Unknown error occurred"

\* the responses of the handler
Preflight == [status |-> 200, kind |-> "preflight", error |-> "", data |-> <<>>]
Success(data) == [status |-> 200, kind |-> "success", error |-> "", data |-> data]
Failure(status, error) == [status |-> status, kind |-> "failure", error |-> error, data |-> <<>>]

\* the catch block
Caught(error) == Failure(500, sanitizeError(error))

\* a page of the provider's result
Page(sourceURL, pageUrl, contentType, markdown) ==
    [sourceURL |-> sourceURL, url |-> pageUrl, contentType |-> contentType,
     markdown |-> markdown]

Extensions ==
    {<<"p", "d", "f">>, <<"j", "p", "g">>, <<"j", "p", "e", "g">>,
       <<"p", "n", "g">>, <<"g", "i", "f">>, <<"c", "s", "s">>,
       <<"j", "s">>, <<"x", "m", "l">>, <<"j", "s", "o", "n">>,
       <<"z", "i", "p">>, <<"d", "o", "c">>, <<"d", "o", "c", "x">>}

\* the filter callback: a page that is likely HTML and has markdown
IsHtmlPage(page) ==
    LET pageUrl == IF Truthy(page.sourceURL) THEN page.sourceURL.val
                   ELSE IF Truthy(page.url) THEN page.url.val ELSE <<>>
        contentType == IF Truthy(page.contentType) THEN page.contentType.val ELSE <<>>
        isHtmlUrl == ~\E ext \in Extensions : EndsWith(LowerCase(pageUrl), <<".">> \o ext)
        isHtmlContent == Includes(contentType, <<"t", "e", "x", "t", "/", "h", "t", "m", "l">>) \/ contentType = <<>>
    IN  isHtmlUrl /\ isHtmlContent /\ Truthy(page.markdown)

\* statusData.data?.filter(...) || []
HtmlPages(data) == IF data.some THEN SelectSeq(data.val, IsHtmlPage) ELSE <<>>

\* what a status poll can give: the request or the reading of the body
\* throws, a non-OK HTTP status, or a body with a job status and data
PollThrows(error) == [kind |-> "throws", error |-> error, status |-> "", data |-> Null]
PollNotOk == [kind |-> "notOk", error |-> NotAnError, status |-> "", data |-> Null]
PollStatus(status, data) ==
    [kind |-> "status", error |-> NotAnError, status |-> status, data |-> data]

\* the response an iteration of the loop returns with after 'failed' was
\* taken for a status to keep polling on
PollResponseIgnoringFailed(outcome) ==
    IF outcome.kind = "throws" THEN [returns |-> TRUE, response |-> Caught(outcome.error)]
    ELSE IF outcome.kind = "status" /\ outcome.status = "completed"
    THEN [returns |-> TRUE, response |-> Success(HtmlPages(outcome.data))]
    ELSE [returns |-> FALSE, response |-> Preflight]

\* the response an iteration of the loop returns with, if it returns
PollResponse(outcome) ==
    IF outcome.kind = "throws" THEN [returns |-> TRUE, response |-> Caught(outcome.error)]
    ELSE IF outcome.kind = "notOk" THEN [returns |-> FALSE, response |-> Preflight]
    ELSE IF outcome.status = "completed"
    THEN [returns |-> TRUE, response |-> Success(HtmlPages(outcome.data))]
    ELSE IF outcome.status = "failed"
    THEN [returns |-> TRUE, response |-> Failure(400, "Crawl job failed")]
    ELSE [returns |-> FALSE, response |-> Preflight]

(* The inputs *)

RequestUrls ==
    { Null, Str(<<>>), Str(<<"h", "t", "t", "p", ":", "/", "/", "h", "/", "a">>), Str(<<"h", "t", "t", "p", "s", ":", "/", "/", "h", ".", "i", "o">>), Str(<<"f", "t", "p", ":", "/", "/", "h", "/", "a">>), Str(<<"h", ".", "i", "o">>),
      Str(<<"h", "t", "t", "p", ":", "/", "/", "l", "o", "c", "a", "l", "h", "o", "s", "t", "/">>), Str(<<"h", "t", "t", "p", ":", "/", "/", "1", "9", "2", ".", "1", "6", "8", ".", "0", ".", "1">>), Str(<<"h", "t", "t", "p", ":", "/", "/", "1", "7", "2", ".", "1", "6", ".", "0", ".", "1", "/">>), Str(<<"h", "t", "t", "p", ":", "/", "/", "1", "7", "2", ".", "3", "2", ".", "0", ".", "1", "/">>),
      Str(<<"h", "t", "t", "p", ":", "/", "/", "[", ":", ":", "1", "]", "/">>), Str(<<"h", "t", "t", "p", ":", "/", "/", "l", "o", "c", "a", "l", "h", "o", "s", "t", ":", "8", "0", "8", "0", "/">>) }

\* maxPages of the body: absent, a number, or not a number
Absent == [type |-> "undefined", val |-> 0]
Number(n) == [type |-> "number", val |-> n]
NotANumber == [type |-> "string", val |-> 0]

RequestMaxPages == {Absent, Number(0), Number(1), Number(50), Number(51), NotANumber}

\* a body that cannot be parsed as JSON, and the parsed bodies
Unparsable == [parses |-> FALSE, url |-> Null, maxPages |-> Absent]
Bodies ==
    {Unparsable}
    \cup { [parses |-> TRUE, url |-> u, maxPages |-> Number(1)] : u \in RequestUrls }
    \cup { [parses |-> TRUE, url |-> Str(<<"h", "t", "t", "p", ":", "/", "/", "h", "/", "a">>), maxPages |-> m] : m \in RequestMaxPages }

Requests ==
    { [method |-> m, clientIp |-> c, body |-> b] :
        m \in {"OPTIONS", "POST"}, c \in {"unknown"}, b \in Bodies }

Errors ==
    { ErrorWith(<<"U", "n", "e", "x", "p", "e", "c", "t", "e", "d", " ", "t", "o", "k", "e", "n">>), ErrorWith(<<"f", "e", "t", "c", "h", " ", "f", "a", "i", "l", "e", "d">>), ErrorWith(<<"n", "e", "t", "w", "o", "r", "k", " ", "d", "o", "w", "n">>),
      ErrorWith(<<"I", "n", "v", "a", "l", "i", "d", " ", "A", "P", "I", " ", "k", "e", "y">>), NotAnError }

PageHtml == Page(Str(<<"h", "t", "t", "p", ":", "/", "/", "h", "/", "a">>), Null, Str(<<"t", "e", "x", "t", "/", "h", "t", "m", "l", ";", " ", "x">>), Str(<<"m">>))
PagePdf == Page(Str(<<"h", "t", "t", "p", ":", "/", "/", "h", "/", "a", ".", "P", "D", "F">>), Null, Null, Str(<<"m">>))
PageImage == Page(Null, Str(<<"h", "t", "t", "p", ":", "/", "/", "h", "/", "b">>), Str(<<"i", "m", "a", "g", "e", "/", "p", "n", "g">>), Str(<<"m">>))
PageNoMarkdown == Page(Str(<<"h", "t", "t", "p", ":", "/", "/", "h", "/", "c">>), Null, Str(<<"t", "e", "x", "t", "/", "h", "t", "m", "l", ";", " ", "x">>), Str(<<>>))
PagePdfQuery == Page(Null, Str(<<"h", "t", "t", "p", ":", "/", "/", "h", "/", "a", ".", "p", "d", "f", "?", "x">>), Str(<<>>), Str(<<"m">>))

PageSets ==
    { Null, Str(<<>>), Str(<<PagePdf, PageHtml>>),
      Str(<<PageImage, PagePdfQuery, PageNoMarkdown, PageHtml>>) }

\* the outcomes of starting the job
StartOutcomes ==
    { [kind |-> "throws", error |-> e, jobError |-> ""] : e \in {ErrorWith(<<"f", "e", "t", "c", "h", " ", "f", "a", "i", "l", "e", "d">>), ErrorWith(<<"U", "n", "e", "x", "p", "e", "c", "t", "e", "d", " ", "t", "o", "k", "e", "n">>)} }
    \cup { [kind |-> k, error |-> NotAnError, jobError |-> ""] : k \in {"notOk", "started"} }
    \cup { [kind |-> "refused", error |-> NotAnError, jobError |-> j] :
             j \in {"", "Insufficient credits"} }

PollOutcomes ==
    { PollThrows(e) : e \in Errors }
    \cup {PollNotOk}
    \cup { PollStatus(st, Null) : st \in {"scraping", "waiting", "cancelled", "failed"} }
    \cup { PollStatus("completed", d) : d \in PageSets }

\* a store in which the client has used up its window, and a fresh one
UsedUp(clientIp) ==
    [c \in Clients |-> IF c = clientIp THEN ClientData(RATE_LIMIT_MAX_REQUESTS, 0)
                       ELSE NoClientData]

InitHandler ==
    /\ AnalyzeIdle
    /\ ReportIdle
    /\ FormIdle
    /\ AuditIdle
    /\ request \in Requests
    /\ firecrawlApiKey \in BOOLEAN
    /\ \/ rateLimitStore = [c \in Clients |-> NoClientData]
          /\ allowedAt = [c \in Clients |-> <<>>]
          /\ window = [c \in Clients |-> NoWindow]
       \/ rateLimitStore = UsedUp(request.clientIp)
          /\ window = [c \in Clients |->
                         IF c = request.clientIp
                         THEN Window(0, RATE_LIMIT_MAX_REQUESTS) ELSE NoWindow]
          /\ allowedAt = [c \in Clients |->
                            IF c = request.clientIp
                            THEN [i \in 1..RATE_LIMIT_MAX_REQUESTS |-> 0] ELSE <<>>]
    /\ now = 0
    /\ hpc = "received"
    /\ attempts = 0
    /\ poll = NoPoll
    /\ provider = NothingSent
    /\ responses = <<>>

\* return new Response(...)
Respond(response) ==
    /\ responses' = Append(responses, response)
    /\ hpc' = "done"

\* lines 80-103: preflight, rate limit, then await req.json()
Receive ==
    /\ hpc = "received"
    /\ IF request.method = "OPTIONS"
       THEN /\ Respond(Preflight)
            /\ UNCHANGED <<rateLimitStore, allowedAt, window>>
       ELSE LET rateLimitCheck == checkRateLimit(rateLimitStore, request.clientIp, now)
            IN  /\ rateLimitStore' = rateLimitCheck.store
                /\ window' = [window EXCEPT ![request.clientIp] = Called(request.clientIp)]
                /\ IF rateLimitCheck.allowed
                   THEN /\ allowedAt' = [allowedAt EXCEPT ![request.clientIp] = Append(@, now)]
                        /\ hpc' = "body"
                        /\ UNCHANGED responses
                   ELSE /\ Respond(Failure(429, "Rate limit exceeded. Please try again later."))
                        /\ UNCHANGED allowedAt
    /\ UNCHANGED <<request, firecrawlApiKey, attempts, poll, provider, now,
                   analyzeVars, reportVars, formVars, auditVars>>

\* lines 103-155: the body arrives; the guards; the crawl-start request
ReadBody ==
    /\ hpc = "body"
    /\ LET body == request.body
           urlValidation == validateUrl(body.url.val)
           maxPagesOk == \/ body.maxPages.type = "undefined"
                         \/ /\ body.maxPages.type = "number"
                            /\ body.maxPages.val >= 1
                            /\ body.maxPages.val <= 50
       IN  IF ~body.parses
           THEN Respond(Caught(ErrorWith(<<"U", "n", "e", "x", "p", "e", "c", "t", "e", "d", " ", "t", "o", "k", "e", "n">>))) /\ UNCHANGED provider
           ELSE IF ~Truthy(body.url)
           THEN Respond(Failure(400, "URL is required")) /\ UNCHANGED provider
           ELSE IF ~urlValidation.valid
           THEN Respond(Failure(400, urlValidation.error)) /\ UNCHANGED provider
           ELSE IF ~maxPagesOk
           THEN Respond(Failure(400, "maxPages must be a number between 1 and 50"))
                /\ UNCHANGED provider
           ELSE IF ~firecrawlApiKey
           THEN Respond(Failure(500, "Firecrawl API key not configured"))
                /\ UNCHANGED provider
           ELSE /\ provider' = [provider EXCEPT !.started = TRUE]
                /\ hpc' = "starting"
                /\ UNCHANGED responses
    /\ UNCHANGED <<request, firecrawlApiKey, attempts, poll, limiterVars,
                   analyzeVars, reportVars, formVars, auditVars>>

\* lines 157-185: the provider's answer to the crawl-start request
JobStarted ==
    /\ hpc = "starting"
    /\ \E outcome \in StartOutcomes :
          CASE outcome.kind = "throws" -> Respond(Caught(outcome.error))
            [] outcome.kind = "notOk" ->
                 Respond(Failure(400,
                    "Failed to start crawl job. Please check your URL and try again."))
            [] outcome.kind = "refused" ->
                 Respond(Failure(400, IF outcome.jobError # "" THEN outcome.jobError
                                      ELSE "Failed to start crawl job"))
            [] OTHER -> hpc' = "polling" /\ UNCHANGED responses
    /\ UNCHANGED <<request, firecrawlApiKey, attempts, poll, provider, limiterVars,
                   analyzeVars, reportVars, formVars, auditVars>>

\* lines 187-250: one iteration of the poll loop, and the timeout response
\* when it was the last
Poll ==
    /\ hpc = "polling"
    /\ attempts < maxAttempts
    /\ \E outcome \in PollOutcomes :
          /\ attempts' = attempts + 1
          /\ provider' = [provider EXCEPT !.polls = @ + 1]
          /\ poll' = outcome
          /\ IF PollResponse(outcome).returns
             THEN Respond(PollResponse(outcome).response)
             ELSE IF attempts + 1 < maxAttempts
             THEN UNCHANGED <<hpc, responses>>
             ELSE Respond(Failure(408, "Crawl job timed out"))
    /\ UNCHANGED <<request, firecrawlApiKey, limiterVars, analyzeVars, reportVars, formVars, auditVars>>

NextHandler ==
    \/ Receive
    \/ ReadBody
    \/ JobStarted
    \/ Poll

\* every awaited call settles
SpecHandler == InitHandler /\ [][NextHandler]_vars /\ WF_vars(NextHandler)

-----------------------------------------------------------------------------
(* Properties of the poll loop *)

LastResponse == responses[Len(responses)]

\* the latest poll reported the named job status
Reported(status) == poll.kind = "status" /\ poll.status = status

\* the latest poll gave a non-OK HTTP status or a job status other than
\* 'completed' and 'failed'
KeepsPolling ==
    \/ poll.kind = "notOk"
    \/ poll.kind = "status" /\ poll.status \notin {"completed", "failed"}

\* the loop counts every poll, makes at most 30, and goes on exactly after
\* the polls that keep it polling; the handler returns at most once
LoopCountsPolls ==
    /\ attempts = provider.polls
    /\ attempts <= 30
    /\ Len(responses) <= 1
    /\ hpc = "done" <=> Len(responses) = 1
    /\ hpc = "polling" => attempts < 30 /\ (attempts > 0 => KeepsPolling)

CompletedAnswer ==
    /\ Reported("completed")
    /\ LastResponse = Success(HtmlPages(poll.data))
    /\ \A i \in 1..Len(LastResponse.data) : IsHtmlPage(LastResponse.data[i])

FailedAnswer ==
    /\ Reported("failed")
    /\ LastResponse = Failure(400, "Crawl job failed")

TimedOutAnswer ==
    /\ KeepsPolling
    /\ attempts = 30
    /\ LastResponse = Failure(408, "Crawl job timed out")

RaisedAnswer ==
    /\ poll.kind = "throws"
    /\ LastResponse.status = 500
    /\ LastResponse.kind = "failure"
    /\ LastResponse.error \in {"Authentication failed", "Network error occurred",
                               "An error occurred while processing your request",
                               "Unknown error occurred"}

-----------------------------------------------------------------------------
(* SeoAuditForm.  The user edits the two fields and submits; the browser   *)
(* dispatches the submit event only from an enabled submit button and only *)
(* when the form's fields satisfy their constraints (the form does not set *)
(* noValidate).                                                            *)

MaxSubmits == 2     \* at most this many onSubmit calls are followed

\* the index of the first character of s from position i on that is no digit
RECURSIVE DigitsEnd(_, _)
DigitsEnd(s, i) ==
    IF i > Len(s) \/ DigitValue(s[i]) < 0 THEN i ELSE DigitsEnd(s, i + 1)

RECURSIVE DigitsNumber(_)
DigitsNumber(digits) ==
    IF digits = <<>> THEN 0
    ELSE 10 * DigitsNumber(SubSeq(digits, 1, Len(digits) - 1))
         + DigitValue(digits[Len(digits)])

\* parseInt(value): leading whitespace, a sign, then the digits up to the
\* first character that is none; NaN without a digit
ParseInt(value) ==
    LET text == TrimStart(value)
        signed == text # <<>> /\ text[1] \in {"-", "+"}
        first == IF signed THEN 2 ELSE 1
        end == DigitsEnd(text, first)
        magnitude == DigitsNumber(SubSeq(text, first, end - 1))
    IN  IF end = first THEN NaN
        ELSE IF signed /\ text[1] = "-" THEN Num(0 - magnitude)
        ELSE Num(magnitude)

\* parseInt(value) || 1
ParseIntOrOne(value) ==
    LET num == ParseInt(value)
    IN  IF num = NaN \/ num.val = 0 THEN 1 ELSE num.val

\* the fields' constraints with the number field's min attribute left out
FormValidWithoutMin(urlValue, maxPagesValue) ==
    /\ urlValue # <<>>
    /\ ParseOrigin(urlValue).ok
    /\ maxPagesValue <= 2

\* constraint validation of the form: the url field is required and of
\* type url, the max-pages field of type number with min 1 and max 2
FormValid(urlValue, maxPagesValue) ==
    /\ urlValue # <<>>
    /\ ParseOrigin(urlValue).ok
    /\ maxPagesValue >= 1
    /\ maxPagesValue <= 2

\* what the user types into the url field and into the max-pages field
UrlInputs == {<<>>, <<" ">>, <<"h">>, <<"h", "t", "t", "p", ":", "/", "/", "h", "/", "a">>, <<"h", "t", "t", "p", "s", ":", "/", "/", "h", ".", "i", "o">>}
MaxPagesInputs == {<<>>, <<"0">>, <<"1">>, <<"2">>, <<"7">>, <<"-", "3">>, <<"1", ".", "5">>}

InitForm ==
    /\ AnalyzeIdle
    /\ ReportIdle
    /\ LimiterIdle
    /\ HandlerIdle
    /\ FormIdle
    /\ AuditIdle

\* onChange of the url field
SetUrl ==
    /\ ~isLoading
    /\ \E value \in UrlInputs : formUrl' = value
    /\ UNCHANGED <<maxPages, isLoading, onSubmitCalls>>
    /\ UNCHANGED <<analyzeVars, reportVars, limiterVars, handlerVars, auditVars>>

\* onChange of the max-pages field
HandleMaxPagesChange ==
    /\ ~isLoading
    /\ \E value \in MaxPagesInputs : maxPages' = Min(ParseIntOrOne(value), 2)
    /\ UNCHANGED <<formUrl, isLoading, onSubmitCalls>>
    /\ UNCHANGED <<analyzeVars, reportVars, limiterVars, handlerVars, auditVars>>

\* the parent renders the form with another isLoading
SetLoading ==
    /\ isLoading' = ~isLoading
    /\ UNCHANGED <<formUrl, maxPages, onSubmitCalls>>
    /\ UNCHANGED <<analyzeVars, reportVars, limiterVars, handlerVars, auditVars>>

\* the user submits: the button is enabled, the fields are valid, and
\* handleSubmit runs
HandleSubmit ==
    /\ Len(onSubmitCalls) < MaxSubmits
    /\ ~(isLoading \/ Trim(formUrl) = <<>>)
    /\ FormValid(formUrl, maxPages)
    /\ onSubmitCalls' =
          IF Trim(formUrl) # <<>>
          THEN Append(onSubmitCalls, [url |-> Trim(formUrl), maxPages |-> Min(maxPages, 2)])
          ELSE onSubmitCalls
    /\ UNCHANGED <<formUrl, maxPages, isLoading>>
    /\ UNCHANGED <<analyzeVars, reportVars, limiterVars, handlerVars, auditVars>>

NextForm ==
    \/ SetUrl
    \/ HandleMaxPagesChange
    \/ SetLoading
    \/ HandleSubmit

SpecForm == InitForm /\ [][NextForm]_vars

-----------------------------------------------------------------------------
(* Properties of the handler's guards *)

\* the client had used up its quota when the request arrived (a denied call
\* leaves the entry as it is, an allowed one leaves a count below the limit)
QuotaExhausted ==
    /\ rateLimitStore[request.clientIp].present
    /\ rateLimitStore[request.clientIp].count >= 10

RequestedUrl == request.body.url.val

\* the host the requested url names: the hostname, an IPv6 address without
\* its brackets
RequestedHost ==
    LET hostname == ParseOrigin(RequestedUrl).hostname
    IN  IF hostname # <<>> /\ hostname[1] = "[" /\ hostname[Len(hostname)] = "]"
        THEN SubSeq(hostname, 2, Len(hostname) - 1)
        ELSE hostname

IsNumber(text) == text # <<>> /\ \A i \in 1..Len(text) : DigitValue(text[i]) >= 0

\* an IPv4 address in 10/8, 172.16/12, 192.168/16 or 127/8
IsPrivateIpAddress(host) ==
    LET parts == Split(host, ".")
    IN  /\ Len(parts) = 4
        /\ \A i \in 1..4 : IsNumber(parts[i])
        /\ \/ DigitsNumber(parts[1]) \in {10, 127}
           \/ DigitsNumber(parts[1]) = 172 /\ DigitsNumber(parts[2]) \in 16..31
           \/ DigitsNumber(parts[1]) = 192 /\ DigitsNumber(parts[2]) = 168

UrlPresent == request.body.parses /\ Truthy(request.body.url)

UrlAcceptable ==
    /\ ParseOrigin(RequestedUrl).ok
    /\ ParseOrigin(RequestedUrl).protocol \in {<<"h", "t", "t", "p", ":">>, <<"h", "t", "t", "p", "s", ":">>}
    /\ RequestedHost \notin BLOCKED_DOMAINS
    /\ ~IsPrivateIpAddress(RequestedHost)

\* maxPages, 2 when the body has none, is a number in 1..50
MaxPagesAcceptable ==
    \/ request.body.maxPages.type = "undefined"
    \/ request.body.maxPages.type = "number" /\ request.body.maxPages.val \in 1..50

GuardsPassed ==
    /\ request.method # "OPTIONS"
    /\ ~QuotaExhausted
    /\ UrlPresent
    /\ UrlAcceptable
    /\ MaxPagesAcceptable
    /\ firecrawlApiKey

\* the status of the response of the first guard, in the order of the
\* claim, that the request does not pass
RejectionStatus ==
    IF QuotaExhausted THEN 429
    ELSE IF ~UrlPresent \/ ~UrlAcceptable \/ ~MaxPagesAcceptable THEN 400
    ELSE 500

\* C21: the crawl-start request goes to the provider only after the guards
\* passed, in this order: rate limit allowed (else 429), url present and
\* accepted by validateUrl, that is protocol http or https and a host that
\* is neither blocked nor a private IP (else 400), maxPages a number in
\* 1..50 (else 400), API key configured (else 500); a rejected request
\* never reaches the provider; an OPTIONS preflight neither reaches the
\* provider nor uses rate-limit quota.
GuardsPrecedeCrawlStart ==
    /\ [](/\ provider.started => GuardsPassed
          /\ provider.polls > 0 => provider.started
          /\ /\ hpc = "done"
             /\ request.method # "OPTIONS"
             /\ QuotaExhausted \/ request.body.parses
             /\ ~GuardsPassed
             => /\ ~provider.started
                /\ LastResponse.status = RejectionStatus
          /\ request.method = "OPTIONS" => ~provider.started)
    /\ [][request.method = "OPTIONS" => UNCHANGED <<rateLimitStore, allowedAt>>]_vars

-----------------------------------------------------------------------------
(* Properties of rateLimitStore *)

\* client c makes a call in this step, and the call is allowed
Calls(c) == window'[c] # window[c]
Allows(c) == allowedAt'[c] = Append(allowedAt[c], now)

\* C22: every client entry of rateLimitStore has count in 1..10; within one
\* window (from the call that set lastReset until a call more than 60000 ms
\* after it) exactly the first 10 calls of a client are allowed and all
\* later ones denied; a denied call leaves the client's count and lastReset
\* as they are, and no call changes another client's entry.
StoreCountsWindowCalls ==
    /\ [](\A c \in Clients :
            IF rateLimitStore[c].present
            THEN /\ rateLimitStore[c].count \in 1..10
                 /\ window[c].open
                 /\ rateLimitStore[c].lastReset = window[c].start
                 /\ rateLimitStore[c].count = Min(window[c].calls, 10)
            ELSE ~window[c].open)
    /\ [][\A c \in Clients :
            Calls(c) =>
                /\ Allows(c) <=> window'[c].calls <= 10
                /\ ~Allows(c) =>
                      /\ allowedAt'[c] = allowedAt[c]
                      /\ rateLimitStore'[c] = rateLimitStore[c]
                /\ \A d \in Clients \ {c} : rateLimitStore'[d] = rateLimitStore[d]]_vars

\* one client was denied in a window that began after an earlier one ended,
\* while the other has quota left
StoreCountsWindowCallsWitness ==
    \E c, d \in Clients :
        /\ window[c].start > RATE_LIMIT_WINDOW
        /\ window[c].calls > 10
        /\ rateLimitStore[c].count = 10
        /\ rateLimitStore[d].present
        /\ rateLimitStore[d].count < 10
        /\ rateLimitStore[d].lastReset < window[c].start

-----------------------------------------------------------------------------
(* analyzePage followed by extractSeoData on its result *)

\* the analysis is put into the analyses and the table row is made from it
ExtractRow ==
    /\ pc = "done"
    /\ ~result.threw
    /\ ~seoData.set
    /\ analyses' = <<result.val>>
    /\ seoData' = Set(extractSeoData(<<result.val>>))
    /\ UNCHANGED <<summary, summaryReport, csv, analyzeVars, limiterVars, handlerVars,
                   formVars, auditVars>>

NextRows ==
    \/ AnalyzePage
    \/ ExtractRow

SpecRows == Init /\ [][NextRows]_vars

\* the messages of the issues of the analysis in the given category
MessagesOf(category) ==
    { analyses[1].issues[i].message.text :
        i \in { j \in 1..Len(analyses[1].issues) :
                  analyses[1].issues[j].category = category } }

\* a label is Good exactly without an issue of the category, and each other
\* label goes with exactly the issue of its message
LabelAgrees(label, category, messageOf) ==
    /\ label = "Good" <=> MessagesOf(category) = {}
    /\ \A other \in DOMAIN messageOf :
          label = other <=> messageOf[other] \in MessagesOf(category)

\* C23: the row extractSeoData makes of an analysis agrees with the issues
\* analyzePage found: titleIssue is Good iff there is no title issue,
\* Missing iff there is the 'Missing title tag' error, Too Long / Too Short
\* iff there is that warning; likewise metaIssue and the meta_description
\* issues, and h1Issue and the h1 issues.
RowAgreesWithIssues ==
    seoData.set =>
        LET row == seoData.val[1]
        IN  /\ LabelAgrees(row.titleIssue, "title",
                  [l \in {"Missing", "Too Long", "Too Short"} |->
                      CASE l = "Missing" -> "Missing title tag"
                        [] l = "Too Long" -> "Title tag too long"
                        [] l = "Too Short" -> "Title tag too short"])
            /\ LabelAgrees(row.metaIssue, "meta_description",
                  [l \in {"Missing", "Too Long", "Too Short"} |->
                      CASE l = "Missing" -> "Missing meta description"
                        [] l = "Too Long" -> "Meta description too long"
                        [] l = "Too Short" -> "Meta description too short"])
            /\ LabelAgrees(row.h1Issue, "h1",
                  [l \in {"Missing", "Multiple H1s"} |->
                      CASE l = "Missing" -> "Missing H1 tag"
                        [] l = "Multiple H1s" -> "Multiple H1 tags found"])

-----------------------------------------------------------------------------
(* Index.handleAuditSubmit: a run sets the states up, awaits               *)
(* FirecrawlService.crawlWebsite, and goes on when that call settles       *)

MaxRuns == 2      \* at most this many runs of handleAuditSubmit

\* an entry of the crawled data: null, an entry lacking html or
\* metadata.sourceURL, and a page with both
NullEntry == [kind |-> "null", sourceURL |-> <<>>, html |-> <<>>]
BareEntry == [kind |-> "bare", sourceURL |-> <<>>, html |-> <<>>]
PageEntry(sourceURL, html) == [kind |-> "page", sourceURL |-> sourceURL, html |-> html]

CrawlEntries ==
    {NullEntry, BareEntry} \cup
    { PageEntry(SamplePages[i][1], SamplePages[i][2]) : i \in 1..3 }

\* what crawlWebsite resolves to (it catches every exception itself):
\* success false, success with data that is no array, and success with up
\* to MaxPages entries
CrawlFailed == [success |-> FALSE, isArray |-> FALSE, data |-> <<>>]
CrawlNoArray == [success |-> TRUE, isArray |-> FALSE, data |-> <<>>]
CrawlData(entries) == [success |-> TRUE, isArray |-> TRUE, data |-> entries]

CrawlResults ==
    {CrawlFailed, CrawlNoArray} \cup
    UNION { { CrawlData(entries) : entries \in [1..k -> CrawlEntries] } : k \in 0..MaxPages }

\* LoopProgress forgetting the 50 the loop starts from
LoopProgressWithoutBase(i, totalPages) ==
    MathRound(Divide((i + 1) * 50, totalPages)).val

\* Math.round(50 + ((i + 1) / totalPages) * 50), i counting from 0
LoopProgress(i, totalPages) ==
    MathRound(Divide(50 * totalPages + (i + 1) * 50, totalPages)).val

\* the for loop over crawlData.data: reading page.html of a null entry
\* throws; the entries before it were analysed and reported as progress
ProcessPages(entries) ==
    LET totalPages == Len(entries)
        nulls == { i \in 1..totalPages : entries[i].kind = "null" }
        stop == IF nulls = {} THEN totalPages + 1
                ELSE CHOOSE i \in nulls : \A j \in nulls : i <= j
        looped == SubSeq(entries, 1, stop - 1)
        pages == SelectSeq(looped, LAMBDA page : page.kind = "page")
    IN  [threw |-> nulls # {},
         pageAnalyses |-> [i \in 1..Len(pages) |->
                             analyzePage(pages[i].sourceURL, pages[i].html).val],
         progress |-> [i \in 1..(stop - 1) |-> LoopProgress(i - 1, totalPages)]]

InitAudit ==
    /\ AnalyzeIdle
    /\ ReportIdle
    /\ LimiterIdle
    /\ HandlerIdle
    /\ FormIdle
    /\ AuditIdle

\* handleAuditSubmit up to its await; the form calls it only while it is
\* not loading
HandleAuditSubmit ==
    /\ apc = "idle"
    /\ ~isLoading
    /\ Len(runs) < MaxRuns
    /\ isLoading' = TRUE
    /\ analyses' = <<>>
    /\ summary' = Unset
    /\ progress' = 10
    /\ progressSet' = <<0, 10>>
    /\ apc' = "crawling"
    /\ UNCHANGED <<runs, seoData, summaryReport, csv, formUrl, maxPages, onSubmitCalls>>
    /\ UNCHANGED <<analyzeVars, limiterVars, handlerVars>>

\* crawlWebsite settles and handleAuditSubmit runs to its end, finally
\* block included
CrawlWebsiteSettles ==
    /\ apc = "crawling"
    /\ \E crawlResult \in CrawlResults :
          LET loop == IF crawlResult.isArray THEN ProcessPages(crawlResult.data)
                      ELSE ProcessPages(<<>>)
          IN  IF ~crawlResult.success
              THEN /\ runs' = Append(runs, "failed")
                   /\ UNCHANGED <<analyses, summary, progress, progressSet>>
              ELSE IF loop.threw
              THEN /\ runs' = Append(runs, "threw")
                   /\ progressSet' = progressSet \o <<50>> \o loop.progress
                   /\ progress' = progressSet'[Len(progressSet')]
                   /\ UNCHANGED <<analyses, summary>>
              ELSE /\ runs' = Append(runs, "succeeded")
                   /\ analyses' = loop.pageAnalyses
                   /\ summary' = Set(generateSummary(loop.pageAnalyses))
                   /\ progressSet' = progressSet \o <<50>> \o loop.progress \o <<100>>
                   /\ progress' = 100
    /\ isLoading' = FALSE
    /\ apc' = "idle"
    /\ UNCHANGED <<seoData, summaryReport, csv, formUrl, maxPages, onSubmitCalls>>
    /\ UNCHANGED <<analyzeVars, limiterVars, handlerVars>>

NextAudit ==
    \/ HandleAuditSubmit
    \/ CrawlWebsiteSettles

\* the awaited crawlWebsite call settles
SpecAudit == InitAudit /\ [][NextAudit]_vars /\ WF_vars(CrawlWebsiteSettles)

\* how the latest run ended, "" before the first one ended
LastRun == IF runs = <<>> THEN "" ELSE runs[Len(runs)]

\* a run is under way, and the page shows no run under way
Running == apc = "crawling"
Ended == apc = "idle" /\ runs # <<>>

NeverDecreased(values) ==
    \A i \in 1..Len(values) : \A j \in i..Len(values) : values[i] <= values[j]

\* C24: every run of handleAuditSubmit ends, and ends with isLoading false,
\* however the crawl went; analyses and summary are cleared when a run
\* starts and set only by a run that succeeded, so after a run that failed
\* or threw analyses is empty and summary is null; after a run that
\* succeeded progress is 100; and the values a run gave progress never
\* decreased.
RunEndsNotLoading ==
    /\ [](/\ Running => isLoading /\ analyses = <<>> /\ summary = Unset
          /\ Ended => ~isLoading
          /\ Ended /\ LastRun \in {"failed", "threw"} => analyses = <<>> /\ summary = Unset
          /\ analyses # <<>> \/ summary.set => Ended /\ LastRun = "succeeded"
          /\ Ended /\ LastRun = "succeeded" => progress = 100
          /\ NeverDecreased(progressSet)
          /\ progressSet # <<>> => progress = progressSet[Len(progressSet)])
    /\ (Running ~> Ended)

\* a run that threw in the loop on its second entry or later, after a run
\* that succeeded: it ended not loading, with analyses empty and summary null
RunEndsNotLoadingWitness ==
    /\ runs = <<"succeeded", "threw">>
    /\ Ended
    /\ ~isLoading
    /\ analyses = <<>>
    /\ summary = Unset
    /\ Len(progressSet) > 4

-----------------------------------------------------------------------------
(* The deductions of analyzePage *)

\* what the four checks of analyzePage take off the 100 for the page
Deduction ==
    TitleCheck(querySelector(doc, "title")).penalty
    + MetaCheck(querySelector(doc, "meta[name=\"description\"]")).penalty
    + H1Check(querySelectorAll(doc, "h1")).penalty
    + ImageCheck(CollectImagesWithoutAlt(querySelectorAll(doc, "img"))).penalty

\* C25: the total deduction of analyzePage is at most 70, so the returned
\* score is at least 30 and is 100 less the deduction, the floor at 0 never
\* being what bounds it; and the score is 100 exactly when there are no
\* issues.
DeductionAtMost70 ==
    Analysed =>
        /\ Deduction <= 70
        /\ Analysis.score >= 30
        /\ Analysis.score = 100 - Deduction
        /\ Analysis.score = 100 <=> Analysis.issues = <<>>

\* a page that loses the most: no title, no description, no H1 and eight
\* or more images without alt
DeductionAtMost70Witness ==
    /\ Analysed
    /\ Deduction = 70
    /\ Analysis.score = 30
    /\ TitleTexts = <<>>
    /\ DescriptionContents = <<>>
    /\ H1Count = 0

====
